---- MODULE Spec2Model ----
(***************************************************************************)
(* A model of the w1 family B3 (DS2432) driver, src/w1_ds2432.c.           *)
(*                                                                         *)
(* The driver's sysfs handlers run on the calling threads and share the    *)
(* 1-Wire bus (sl->master->bus_mutex), the chip behind it and the          *)
(* host-side secret shadow (b3_data->secret).  Every handler is modelled   *)
(* as a sequence of steps, one step per bus command it issues, and one up  *)
(* to each msleep in which the chip works; the chip and the wire are the   *)
(* environment.  The shadow is read and written byte by byte under no      *)
(* lock, and w1_b3_remove_slave frees it whatever the handlers are doing.  *)
(*                                                                         *)
(* C arrays are 0-based and TLA+ sequences 1-based: data[i] in the source  *)
(* is data[i + 1] here.  A u32 is a pair <<hi, lo>> of 16-bit halves, a    *)
(* u16 and a u8 are numbers.                                               *)
(***************************************************************************)
EXTENDS Integers, Sequences, FiniteSets, TLC

VARIABLES
  pc,         \* pc[t]: where thread t stands in its handler
  loc,        \* loc[t]: the handler's arguments and local variables
  wire,       \* wire[t]: the bus actions of thread t's current handler, in order
  bus_mutex,  \* sl->master->bus_mutex: 0 when free, else the owning thread
  secret,     \* b3_data->secret, the host-side shadow
  chip,       \* the DS2432 on the bus
  ghost,      \* ghost[t]: what the claims need to remember of the handler's start
  faults,     \* the wire and chip faults the environment may still inject
  CONFIG_W1_SLAVE_DS2432_CRC,  \* whether the build defines it
  family_data \* sl->family_data: "data" (the w1_b3_data of add_slave) or "NULL"

vars ==
  <<pc, loc, wire, bus_mutex, secret, chip, ghost, faults,
    CONFIG_W1_SLAVE_DS2432_CRC, family_data>>

\* what no handler assigns: the build, and the data add_slave allocated
device == <<CONFIG_W1_SLAVE_DS2432_CRC, family_data>>

-----------------------------------------------------------------------------
(* Bounds of the model.                                                    *)

NThreads == 2       \* threads, each calling one handler
MaxBlocks == 2      \* a whole-buffer write has at most this many 8-byte blocks
MaxFaults == 1      \* wire and chip faults injected in one behaviour

Threads == 1..NThreads

-----------------------------------------------------------------------------
(* Program constants.                                                      *)

DS2432_WRITE_SCRATCHPAD == 15
DS2432_READ_SCRATCHPAD == 170
DS2432_COPY_SCRATCHPAD == 85
DS2432_LOAD_FIRST_SECRET == 90
DS2432_READ_MEMORY == 240
W1_DS2432_PAGE_SIZE == 32
W1_DS2432_SECRET_ADDR == 128
W1_DS2432_REGISTER_PAGE_ADDR == 136
W1_DS2432_REGISTER_PAGE_SIZE == 16
W1_DS2432_DATA_MEMORY_SIZE == 128

\* errno values the handlers return negated
EPERM == 1
EIO == 5
EACCES == 13

Byte == 0..255

\* A byte the handlers read from memory that is not theirs has no value the
\* source gives it.  The model writes such a byte as a number from 256 on,
\* which no operation on bytes yields, and which stands for any of the 256
\* values:
\*   Unowned (256 .. 511)  a byte read through a pointer to a block that
\*                         was freed: nothing says what it is, nor that two
\*                         reads of it agree;
\*   Beyond(j) (512 + j)   byte j of the buffer of a write, past the count
\*                         the caller gave: nothing says what it is.  The
\*                         block reads it for the frame (lines 196-203) and
\*                         again for the comparison with the scratchpad
\*                         (592); nothing stores to the buffer during the
\*                         call, and the two reads give the same byte.
\* The low 8 bits of such a number are what the arithmetic of the model
\* computes with where a result does not depend on the value (a checksum
\* compared with the checksum of the same bytes).
Unowned == 256

Beyond(j) == 512 + j

\* some byte of the sequence is a byte read from a freed block
HasUnowned(bytes) == \E i \in DOMAIN bytes : bytes[i] \in 256..511

-----------------------------------------------------------------------------
(* Bit arithmetic on u8, u16 and u32.  The operations are functions, so    *)
(* that an argument is evaluated once, before the operation is applied;    *)
(* their domains are Nat, every result is reduced to its width.            *)

U32 == Nat \X Nat

RECURSIVE BitAnd(_, _, _)
BitAnd(a, b, n) ==
  IF n = 0 THEN 0
  ELSE (IF (a % 2 = 1) /\ (b % 2 = 1) THEN 1 ELSE 0)
       + 2 * BitAnd(a \div 2, b \div 2, n - 1)

AndNib == [a \in 0..15 |-> [b \in 0..15 |-> BitAnd(a, b, 4)]]

And8 ==
  [a \in 0..255 |-> [b \in 0..255 |->
     AndNib[a % 16][b % 16] + 16 * AndNib[a \div 16][b \div 16]]]

And16 ==
  [a \in Nat, b \in Nat |->
     And8[a % 256][b % 256] + 256 * And8[(a \div 256) % 256][(b \div 256) % 256]]

Xor16 == [a \in Nat, b \in Nat |-> a + b - 2 * And16[a, b]]

Not16 == [a \in Nat |-> 65535 - (a % 65536)]

and32 == [p \in U32, q \in U32 |-> <<And16[p[1], q[1]], And16[p[2], q[2]]>>]

xor32 == [p \in U32, q \in U32 |-> <<Xor16[p[1], q[1]], Xor16[p[2], q[2]]>>]

add32 ==
  [p \in U32, q \in U32 |->
     << (p[1] + q[1] + ((p[2] + q[2]) \div 65536)) % 65536,
        (p[2] + q[2]) % 65536 >>]

Pow2 == [n \in 0..16 |-> 2 ^ n]

\* rotate left by n < 16
rolHalf ==
  [p \in U32, n \in Nat |->
     << ((p[1] * Pow2[n]) % 65536) + (p[2] \div Pow2[16 - n]),
        ((p[2] * Pow2[n]) % 65536) + (p[1] \div Pow2[16 - n]) >>]

rol32 ==
  [p \in U32, n \in Nat |->
     IF n < 16 THEN rolHalf[p, n] ELSE rolHalf[<<p[2], p[1]>>, n - 16]]

-----------------------------------------------------------------------------
(* crc16() of the kernel, lib/crc16.c: CRC-16 with the reflected           *)
(* polynomial 0xA001, as called at w1_ds2432.c:211 and :259-261.           *)

CRC16_POLY == 40961

crc16_bits[c \in Nat, n \in Nat] ==
  IF n = 0 THEN c
  ELSE crc16_bits[IF c % 2 = 1 THEN Xor16[c \div 2, CRC16_POLY] ELSE c \div 2,
                  n - 1]

\* crc16_table[] of lib/crc16.c
crc16_table == [b \in Byte |-> crc16_bits[b, 8]]

\* crc16_byte(): (crc >> 8) ^ crc16_table[(crc ^ data) & 0xff]
crc16_byte ==
  [crc \in Nat, data \in Nat |->
     Xor16[crc \div 256, crc16_table[Xor16[crc, data] % 256]]]

\* crc16(crc, buffer, len): byte by byte
crc16[crc \in Nat, buffer \in Seq(Nat)] ==
  IF buffer = <<>> THEN crc
  ELSE crc16[crc16_byte[crc, Head(buffer)], Tail(buffer)]

-----------------------------------------------------------------------------
(* The MAC engine.                                                         *)

f1 == [x \in U32, y \in U32, z \in U32 |-> xor32[z, and32[x, xor32[y, z]]]]
f2 == [x \in U32, y \in U32, z \in U32 |-> xor32[xor32[x, y], z]]
\* f3 with z taken where x and y agree
f3_xor == [x \in U32, y \in U32, z \in U32 |->
        xor32[and32[x, y], and32[z, and32[x, y]]]]

f3 == [x \in U32, y \in U32, z \in U32 |->
        add32[and32[x, y], and32[z, xor32[x, y]]]]

K1 == <<23170, 31129>>   \* 0x5A827999
K2 == <<28377, 60321>>   \* 0x6ED9EBA1
K3 == <<36635, 48348>>   \* 0x8F1BBCDC
K4 == <<51810, 49622>>   \* 0xCA62C1D6

\* be32_to_cpu(((const __be32 *)in)[i])
be32_to_cpu(in, i) ==
  <<in[4 * i + 1] * 256 + in[4 * i + 2], in[4 * i + 3] * 256 + in[4 * i + 4]>>

\* for (i = 0; i < 64; i++)
\*   workspace[i + 16] = rol32(workspace[i + 13] ^ workspace[i + 8] ^
\*                             workspace[i + 2] ^ workspace[i], 1);
\* with i = Len(w) - 16
ShaExpand[w \in Seq(U32)] ==
  IF Len(w) >= 80 THEN w
  ELSE ShaExpand[Append(w,
         rol32[xor32[xor32[w[Len(w) - 2], w[Len(w) - 7]],
                     xor32[w[Len(w) - 13], w[Len(w) - 15]]], 1])]

\* one round on s = <<a, b, c, d, e>> with the workspace word wi:
\* t = f(b, c, d) + K + rol32(a, 5) + e + workspace[i];
\* e = d; d = c; c = rol32(b, 30); b = a; a = t;
ShaRound ==
  [s \in Seq(U32), i \in Nat, wi \in U32 |->
     LET f == IF i < 20 THEN f1[s[2], s[3], s[4]]
              ELSE IF i < 40 THEN f2[s[2], s[3], s[4]]
              ELSE IF i < 60 THEN f3[s[2], s[3], s[4]]
              ELSE f2[s[2], s[3], s[4]]
         k == IF i < 20 THEN K1 ELSE IF i < 40 THEN K2
              ELSE IF i < 60 THEN K3 ELSE K4
     IN  << add32[add32[add32[add32[f, k], rol32[s[1], 5]], s[5]], wi],
            s[1], rol32[s[2], 30], s[3], s[4] >>]

\* the four loops of 20 rounds, from round i on
ShaRounds[s \in Seq(U32), i \in Nat, w \in Seq(U32)] ==
  IF i = 80 THEN s ELSE ShaRounds[ShaRound[s, i, w[i + 1]], i + 1, w]

\* a = 0x67452301; b = 0xEFCDAB89; c = 0x98BADCFE; d = 0x10325476;
\* e = 0xC3D2E1F0;
ShaInit ==
  << <<26437, 8961>>, <<61389, 43913>>, <<39098, 56574>>,
     <<4146, 21622>>, <<50130, 57840>> >>

\* the MAC <<a, b, c, d, e>> of the 64-byte block in
maxim_sha_transform ==
  [in \in Seq(Byte) |->
     ShaRounds[ShaInit, 0, ShaExpand[[i \in 1..16 |-> be32_to_cpu(in, i - 1)]]]]

\* the page byte shifted by a nibble instead of five bits
MacPageByte_shift4(memory_page) == And16[memory_page, 240] \div 16

\* the page byte of the comment: ((memory_page & 0x01e0) >> 5) & 0x0f
MacPageByte_t8(memory_page) == (And16[memory_page, 480] \div 32) % 16

\* message[40] = ((memory_page & 0xf0) >> 5)
MacPageByte(memory_page) == And16[memory_page, 240] \div 32

MacPadding == <<255, 255, 255, 128, 0, 0, 0, 0, 0, 0, 1, 184>>

\* a message that takes the whole secret first and leaves bytes 48-51 zero
MacMessage_secret_first(sec, scratchpad, memory_page, data_memory_page, serial_number) ==
     SubSeq(sec, 1, 4)
  \o SubSeq(sec, 5, 8)
  \o SubSeq(data_memory_page, 1, 24)
  \o SubSeq(scratchpad, 1, 8)
  \o <<MacPageByte(memory_page)>>
  \o SubSeq(serial_number, 1, 7)
  \o <<0, 0, 0, 0>>
  \o MacPadding

\* the 64-byte message of generate_mac
MacMessage(sec, scratchpad, memory_page, data_memory_page, serial_number) ==
     SubSeq(sec, 1, 4)
  \o SubSeq(data_memory_page, 1, 28)
  \o SubSeq(scratchpad, 1, 8)
  \o <<MacPageByte(memory_page)>>
  \o SubSeq(serial_number, 1, 7)
  \o SubSeq(sec, 5, 8)
  \o MacPadding

\* The MAC of a message.  A message with a byte that has no value has a MAC
\* that has none: its words carry a third element, the mark of their bytes.
\* With a byte of a freed block in the message the MAC is Unowned as a
\* whole.  Otherwise the undetermined bytes are bytes Beyond the count, and
\* the MAC is the same for the same message and differs for messages that
\* differ: its words are those of the transform on the low 8 bits, marked.
MessageMac(message) ==
  IF \A i \in 1..64 : message[i] < 256 THEN maxim_sha_transform[message]
  ELSE IF HasUnowned(message) THEN [i \in 1..5 |-> <<0, 0, Unowned>>]
  ELSE LET sha1 == maxim_sha_transform[[i \in 1..64 |-> message[i] % 256]]
       IN  [i \in 1..5 |-> <<sha1[i][1], sha1[i][2], Beyond(0)>>]

generate_mac(sec, scratchpad, memory_page, data_memory_page, serial_number) ==
  MessageMac(
    MacMessage(sec, scratchpad, memory_page, data_memory_page, serial_number))

\* the four bytes of a word, least significant first; the bytes of a word
\* of an undetermined MAC carry its mark
WordBytesLE(p) ==
  LET mark == IF Len(p) = 3 THEN p[3] ELSE 0
  IN  <<mark + (p[2] % 256), mark + (p[2] \div 256),
        mark + (p[1] % 256), mark + (p[1] \div 256)>>

\* the words sent in the order a, b, c, d, e
MacWireBytes_abcde(mac) ==
     WordBytesLE(mac[1]) \o WordBytesLE(mac[2]) \o WordBytesLE(mac[3])
  \o WordBytesLE(mac[4]) \o WordBytesLE(mac[5])

MacWireBytes(mac) ==
     WordBytesLE(mac[5]) \o WordBytesLE(mac[4]) \o WordBytesLE(mac[3])
  \o WordBytesLE(mac[2]) \o WordBytesLE(mac[1])

-----------------------------------------------------------------------------
(* The DS2432 and the wire: the environment of the driver.                 *)
(*                                                                         *)
(* The chip is a record: eeprom (128 bytes), secret (8 bytes), the         *)
(* scratchpad registers ta (target address), es and sp (8 bytes), wp,      *)
(* whether the data memory is write protected, mac, the MAC it has         *)
(* computed for a copy-scratchpad in progress, and status, the byte it     *)
(* drives once its internal transfer is over.  It behaves as the           *)
(* comments of the driver describe it (w1_ds2432.c:59-64, 213-214,         *)
(* 263-264, 299-300, 435-442, 454, 461, 705-712).                          *)
(*                                                                         *)
(* Faults: a reset-and-select may fail; a write-scratchpad frame may       *)
(* reach the chip with a flipped bit, with the checksum reply showing it   *)
(* or not; the chip may flag a partial write (ES bit 5); a read-scratchpad *)
(* frame may reach the host with one flipped bit; the status byte after a  *)
(* copy-scratchpad or a load-first-secret may be disturbed: the host reads *)
(* a byte that is no success pattern, whether the chip did its transfer    *)
(* or not.                                                                 *)

\* sl->reg_num: family code, 48-bit serial number, crc8
RegistrationNumber == <<179, 17, 34, 51, 68, 85, 102, 119>>

SecretZero == [i \in 1..8 |-> 0]

\* the secrets of the README's "Typical Usage"
SecretReadme1 == <<0, 17, 34, 51, 68, 85, 102, 119>>
SecretReadme2 == <<170, 187, 204, 221, 238, 255, 17, 34>>

ES_IDLE == 95      \* 0x5F: E2:E0 and the unused bits read 1, PF and AA clear
ES_PF == 32        \* bit 5, the partial-byte flag
ES_AA == 128       \* bit 7, authorization accepted

\* what the host reads from a bus no device drives
BUS_IDLE == 255

ChipInit(wp) ==
  [ eeprom |-> [i \in 1..W1_DS2432_DATA_MEMORY_SIZE |-> 0],
    secret |-> SecretZero,
    ta |-> 0, es |-> ES_IDLE, sp |-> [i \in 1..8 |-> 0],
    wp |-> wp, mac |-> <<>>, status |-> BUS_IDLE ]

\* what the chip sends for the byte at address a (memory map, lines 39-52, 705-712)
ChipByte(c, a) ==
  IF a < W1_DS2432_DATA_MEMORY_SIZE THEN c.eeprom[a + 1]
  ELSE IF a < W1_DS2432_REGISTER_PAGE_ADDR THEN 255          \* secret: no read access
  ELSE IF a = W1_DS2432_REGISTER_PAGE_ADDR + 1 THEN (IF c.wp THEN 85 ELSE 0)
  ELSE IF a = W1_DS2432_REGISTER_PAGE_ADDR + 3 THEN 85       \* factory byte
  ELSE IF a < W1_DS2432_REGISTER_PAGE_ADDR + 8 THEN 0
  ELSE IF a < W1_DS2432_REGISTER_PAGE_ADDR + 16
       THEN RegistrationNumber[a - W1_DS2432_REGISTER_PAGE_ADDR - 7]
  ELSE 255

FlipByte(b, mask) == Xor16[b, mask]

U16Bytes(v) == <<v % 256, v \div 256>>

\* bits flipped in transit: <<k, mask>> flips the bits mask of byte k of a
\* block, <<0, 0>> flips nothing
NoFlip == <<0, 0>>

Flip(bytes, f) ==
  IF f[1] = 0 THEN bytes ELSE [bytes EXCEPT ![f[1]] = FlipByte(@, f[2])]

\* faults of one write-scratchpad frame on its way to the chip: a bit of the
\* low address byte or of the first data byte flips, or the frame is cut
\* short and the chip sets its partial-byte flag
NoTxErr == [flip |-> NoFlip, pf |-> FALSE]

TxErrs ==
  { NoTxErr, [flip |-> <<2, 8>>, pf |-> FALSE], [flip |-> <<4, 1>>, pf |-> FALSE],
    [flip |-> NoFlip, pf |-> TRUE] }

\* and of the checksum reply: intact, one bit flipped, or damaged into the
\* value the host expects (mask: the corruption goes undetected)
NoCrcErr == [flip |-> NoFlip, mask |-> FALSE]

CrcErrs ==
  { NoCrcErr, [flip |-> <<1, 1>>, mask |-> FALSE], [flip |-> NoFlip, mask |-> TRUE] }

\* the frame as the chip receives it
ChipRxFrame(frame, txerr) == Flip(frame, txerr.flip)

\* the chip after a write-scratchpad frame: it holds the target address and
\* the 8 bytes it received
ChipWriteScratchpad(c, frame, txerr) ==
  LET rx == ChipRxFrame(frame, txerr)
  IN  [c EXCEPT !.ta = rx[2] + 256 * rx[3],
                !.sp = SubSeq(rx, 4, 11),
                !.es = IF txerr.pf THEN ES_IDLE + ES_PF ELSE ES_IDLE]

\* the inverted CRC16 the host receives after a write-scratchpad frame, as
\* the 16-bit value the two bytes make (low byte first)
ChipWriteScratchpadCrc(frame, txerr, crcerr) ==
  LET sent == Not16[crc16[0, IF crcerr.mask THEN frame ELSE ChipRxFrame(frame, txerr)]]
      got == Flip(U16Bytes(sent), crcerr.flip)
  IN  got[1] + 256 * got[2]

\* the bits of the 13-byte read-scratchpad reply that may flip (none; one of
\* TA1, of ES, of the first data byte, of the low checksum byte)
RxErrs == {NoFlip, <<1, 8>>, <<3, ES_PF>>, <<4, 1>>, <<12, 1>>}

\* the 13 bytes the host receives after the read-scratchpad command:
\* TA1, TA2, ES, 8 data bytes, inverted CRC16 (low byte first)
ChipReadScratchpad(c, rxerr) ==
  LET status == U16Bytes(c.ta) \o <<c.es>>
      reply == status \o c.sp
               \o U16Bytes(Not16[crc16[0, <<DS2432_READ_SCRATCHPAD>> \o status \o c.sp]])
  IN  Flip(reply, rxerr)

\* the authorization pattern: TA1, TA2 and ES as read from the scratchpad
ChipAuthorized(c, address, es) == address = c.ta /\ es = c.es

ChipPage(c) == c.ta \div W1_DS2432_PAGE_SIZE

\* the MAC the chip computes for copy-scratchpad (lines 59-64, 311-320, 343-347)
ChipMac(c) ==
  MessageMac(
       SubSeq(c.secret, 1, 4)
    \o SubSeq(c.eeprom, ChipPage(c) * W1_DS2432_PAGE_SIZE + 1,
                        ChipPage(c) * W1_DS2432_PAGE_SIZE + 28)
    \o c.sp
    \o <<ChipPage(c) % 16>>
    \o SubSeq(RegistrationNumber, 1, 7)
    \o SubSeq(c.secret, 5, 8)
    \o MacPadding)

\* the chip after the copy-scratchpad command bytes: it computes its MAC
\* while the host waits (lines 400-401)
ChipCopyCommand(c) == [c EXCEPT !.mac = ChipMac(c)]

\* whether the 20 bytes the chip received are its own MAC: with bytes of a
\* freed block in either they may be equal or not
ChipMacMatches(c, macbytes) ==
  IF HasUnowned(macbytes) \/ HasUnowned(MacWireBytes(c.mac)) THEN BOOLEAN
  ELSE {macbytes = MacWireBytes(c.mac)}

\* "accept", "protected" or "reject" (lines 435-442, 454, 461); match: the
\* MAC received is the chip's own
ChipCopyOutcome(c, address, es, match) ==
  IF ~ChipAuthorized(c, address, es) \/ c.ta + 8 > W1_DS2432_DATA_MEMORY_SIZE
  THEN "reject"
  ELSE IF ~match THEN "reject"
  ELSE IF c.wp THEN "protected"
  ELSE "accept"

\* the chip after the MAC was compared and refused, or the commit did not
\* take place
ChipCopyEnd(c) == [c EXCEPT !.mac = <<>>]

\* the chip after an accepted copy-scratchpad: the scratchpad is in the EEPROM
ChipCommit(c) ==
  [c EXCEPT !.eeprom = [i \in 1..W1_DS2432_DATA_MEMORY_SIZE |->
                          IF i > c.ta /\ i <= c.ta + 8 THEN c.sp[i - c.ta] ELSE @[i]],
            !.es = ES_IDLE + ES_AA,
            !.mac = <<>>]

\* the chip after an accepted load-first-secret: the scratchpad is the secret
ChipLoadSecret(c) == [c EXCEPT !.secret = c.sp]

\* the chip drives b for the host's next read of one byte; once the host
\* has read it the bus is idle again
ChipDrive(c, b) == [c EXCEPT !.status = b]

\* the status bytes the chip drives after a command it ends with outcome o
ChipStatus(o) ==
  IF o = "accept" THEN {170, 85}
  ELSE IF o = "protected" THEN {255}
  ELSE {0}

\* the bytes a host may read when the status byte is disturbed: the two
\* bytes copy-scratchpad has a branch of its own for, and bytes next to
\* them and to the success patterns
GlitchStatus == {0, 1, 84, 86, 169, 171, 254, 255}

-----------------------------------------------------------------------------
(* The bus commands of the driver.  Each is an operator from the chip, the *)
(* environment's choices and the arguments to a record: ret (the return    *)
(* value), chip (the chip afterwards), the output arguments, and ev (the   *)
(* bus actions performed, in order).                                       *)

EvReset(ok) == [a |-> IF ok THEN "reset" ELSE "reset_failed", bytes |-> <<>>, n |-> 0]
EvWrite(bytes) == [a |-> "write", bytes |-> bytes, n |-> Len(bytes)]
EvRead(n) == [a |-> "read", bytes |-> <<>>, n |-> n]
EvSleep(ms) == [a |-> "sleep", bytes |-> <<>>, n |-> ms]
EvResetBus == [a |-> "reset_bus", bytes |-> <<>>, n |-> 0]

U8(v) == v % 256

\* read memory that relies on the reset-and-select of its caller
w1_ds2432_read_memory_no_reset(c, rs_ok, address, memory, count) ==
  [ret |-> 0,
   memory |-> [i \in 1..Len(memory) |->
                 IF i <= count THEN ChipByte(c, address + i - 1) ELSE memory[i]],
   ev |-> <<EvWrite(<<DS2432_READ_MEMORY, U8(address), U8(address \div 256)>>),
            EvRead(count)>>]

w1_ds2432_read_memory(c, rs_ok, address, memory, count) ==
  IF ~rs_ok
  THEN [ret |-> 0 - EIO, memory |-> memory, ev |-> <<EvReset(FALSE)>>]
  ELSE [ret |-> 0,
        memory |-> [i \in 1..Len(memory) |->
                      IF i <= count THEN ChipByte(c, address + i - 1) ELSE memory[i]],
        ev |-> <<EvReset(TRUE),
                 EvWrite(<<DS2432_READ_MEMORY, U8(address), U8(address \div 256)>>),
                 EvRead(count)>>]

\* write scratchpad that reads the checksum and does not look at it
w1_ds2432_write_scratchpad_unchecked(config_crc, c, rs_ok, address, data, txerr, crcerr) ==
  LET wrbuf == <<DS2432_WRITE_SCRATCHPAD, U8(address), U8(address \div 256)>>
               \o SubSeq(data, 1, 8)
  IN  IF ~rs_ok
      THEN [ret |-> 0 - EIO, chip |-> c, ev |-> <<EvReset(FALSE)>>]
      ELSE [ret |-> 0,
            chip |-> ChipWriteScratchpad(c, wrbuf, txerr),
            ev |-> <<EvReset(TRUE), EvWrite(wrbuf), EvRead(2)>>]

\* config_crc: the driver is built with CONFIG_W1_SLAVE_DS2432_CRC
w1_ds2432_write_scratchpad(config_crc, c, rs_ok, address, data, txerr, crcerr) ==
  LET wrbuf == <<DS2432_WRITE_SCRATCHPAD, U8(address), U8(address \div 256)>>
               \o SubSeq(data, 1, 8)
      my_scratchpad_crc == crc16[0, wrbuf]
      ds2432_scratchpad_crc == Not16[ChipWriteScratchpadCrc(wrbuf, txerr, crcerr)]
  IN  IF ~rs_ok
      THEN [ret |-> 0 - EIO, chip |-> c, ev |-> <<EvReset(FALSE)>>]
      ELSE [ret |-> IF config_crc
                       /\ my_scratchpad_crc # ds2432_scratchpad_crc
                    THEN 0 - EIO ELSE 0,
            chip |-> ChipWriteScratchpad(c, wrbuf, txerr),
            ev |-> <<EvReset(TRUE), EvWrite(wrbuf), EvRead(2)>>]

\* read scratchpad that takes the first status byte as the high address byte
w1_ds2432_read_scratchpad_high_first(config_crc, c, rs_ok, rxerr, address, es, data) ==
  LET wrbuf == <<DS2432_READ_SCRATCHPAD>>
      reply == ChipReadScratchpad(c, rxerr)
      rdbuf == SubSeq(reply, 1, 3)
      rddata == SubSeq(reply, 4, 11)
      my_scratchpad_crc == crc16[crc16[crc16[0, wrbuf], rdbuf], rddata]
      ds2432_scratchpad_crc == Not16[reply[12] + 256 * reply[13]]
  IN  IF ~rs_ok
      THEN [ret |-> 0 - EIO, address |-> address, es |-> es, data |-> data,
            ev |-> <<EvReset(FALSE)>>]
      ELSE [ret |-> IF config_crc
                       /\ my_scratchpad_crc # ds2432_scratchpad_crc
                    THEN 0 - EIO ELSE 0,
            address |-> rdbuf[1] * 256 + rdbuf[2],
            es |-> rdbuf[3],
            data |-> rddata,
            ev |-> <<EvReset(TRUE), EvWrite(wrbuf), EvRead(3), EvRead(8), EvRead(2)>>]

\* address, es and data are the output arguments: written before the
\* checksum is looked at, left alone when reset-and-select fails
w1_ds2432_read_scratchpad(config_crc, c, rs_ok, rxerr, address, es, data) ==
  LET wrbuf == <<DS2432_READ_SCRATCHPAD>>
      reply == ChipReadScratchpad(c, rxerr)
      rdbuf == SubSeq(reply, 1, 3)
      rddata == SubSeq(reply, 4, 11)
      my_scratchpad_crc == crc16[crc16[crc16[0, wrbuf], rdbuf], rddata]
      ds2432_scratchpad_crc == Not16[reply[12] + 256 * reply[13]]
  IN  IF ~rs_ok
      THEN [ret |-> 0 - EIO, address |-> address, es |-> es, data |-> data,
            ev |-> <<EvReset(FALSE)>>]
      ELSE [ret |-> IF config_crc
                       /\ my_scratchpad_crc # ds2432_scratchpad_crc
                    THEN 0 - EIO ELSE 0,
            address |-> rdbuf[2] * 256 + rdbuf[1],
            es |-> rdbuf[3],
            data |-> rddata,
            ev |-> <<EvReset(TRUE), EvWrite(wrbuf), EvRead(3), EvRead(8), EvRead(2)>>]

\* a status check that takes 0xAA only
load_first_secret_status_aa(success) ==
  IF success # 170 THEN 0 - EIO ELSE 0

\* the classification of the status byte read after load-first-secret
load_first_secret_status(success) ==
  IF success # 170 /\ success # 85 THEN 0 - EIO ELSE 0

\* The chip's reaction to load-first-secret, as the environment chooses it:
\* act (the chip takes the scratchpad as its secret) and success (the status
\* byte the host reads).  With a disturbance (glitch) the host reads a byte
\* that is no success pattern, whichever: the chip has loaded nothing, or
\* it has loaded the secret and its status byte is misread.
LoadFirstSecretEnv(c, address, es, glitch) ==
  IF glitch
  THEN {[act |-> a, success |-> b] :
          a \in {FALSE, ChipAuthorized(c, address, es)}, b \in GlitchStatus}
  ELSE IF ChipAuthorized(c, address, es)
       THEN {[act |-> TRUE, success |-> b] : b \in ChipStatus("accept")}
  ELSE {[act |-> FALSE, success |-> 255]}

\* w1_ds2432_load_first_secret up to the end of its wait: reset and select,
\* the command with the authorization pattern, msleep(10), during which
\* the chip does its transfer
w1_ds2432_load_first_secret_command(c, rs_ok, address, es, env) ==
  LET load_first_secret == <<DS2432_LOAD_FIRST_SECRET, U8(address), U8(address \div 256), es>>
  IN  IF ~rs_ok
      THEN [ret |-> 0 - EIO, chip |-> c, ev |-> <<EvReset(FALSE)>>]
      ELSE [ret |-> 0,
            chip |-> ChipDrive(IF env.act THEN ChipLoadSecret(c) ELSE c, env.success),
            ev |-> <<EvReset(TRUE), EvWrite(load_first_secret), EvSleep(10)>>]

\* the rest of w1_ds2432_load_first_secret: the status byte is read and
\* classified
w1_ds2432_load_first_secret(c) ==
  [ret |-> load_first_secret_status(c.status),
   chip |-> ChipDrive(c, BUS_IDLE),
   success |-> c.status,
   ev |-> <<EvRead(1)>>]

\* the classification load-first-secret uses, which knows one failure only
copy_scratchpad_status_one_failure(success) ==
  IF success # 170 /\ success # 85 THEN 0 - EIO ELSE 0

\* the classification of the status byte read after the MAC was sent
copy_scratchpad_status(success) ==
  IF success = 0 THEN 0 - EACCES
  ELSE IF success = 255 THEN 0 - EPERM
  ELSE IF success # 170 /\ success # 85 THEN 0 - EIO
  ELSE 0

\* The chip's reaction to copy-scratchpad with the MAC bytes macbytes: act
\* (the chip commits the scratchpad) and success (the status byte read).
\* With a disturbance (glitch) the host reads a byte that is no success
\* pattern, whichever (0x00 and 0xFF among them): the chip has committed
\* nothing, or it has committed and its status byte is misread, so that a
\* commit that took place reads as any of the three failures.
CopyScratchpadEnv(c, address, es, macbytes, glitch) ==
  UNION { LET o == ChipCopyOutcome(c, address, es, match)
          IN  IF glitch
              THEN {[act |-> a, success |-> b] :
                      a \in {FALSE, o = "accept"}, b \in GlitchStatus}
              ELSE {[act |-> o = "accept", success |-> b] : b \in ChipStatus(o)} :
          match \in ChipMacMatches(c, macbytes) }

\* w1_ds2432_copy_scratchpad up to the wait for the chip's MAC: reset and
\* select, the command with the authorization pattern, msleep(2)
w1_ds2432_copy_scratchpad_command(c, rs_ok, address, es) ==
  LET copy_scratchpad == <<DS2432_COPY_SCRATCHPAD, U8(address), U8(address \div 256), es>>
  IN  IF ~rs_ok
      THEN [ret |-> 0 - EIO, chip |-> c, ev |-> <<EvReset(FALSE)>>]
      ELSE [ret |-> 0, chip |-> ChipCopyCommand(c),
            ev |-> <<EvReset(TRUE), EvWrite(copy_scratchpad), EvSleep(2)>>]

\* a copy scratchpad that sends the MAC and does not wait for the chip
w1_ds2432_copy_scratchpad_mac_no_wait(c, mac, env) ==
  LET copy_scratchpad_mac == MacWireBytes(mac)
  IN  [chip |-> ChipDrive(IF env.act THEN ChipCommit(c) ELSE ChipCopyEnd(c), env.success),
       ev |-> <<EvWrite(copy_scratchpad_mac)>>]

\* w1_ds2432_copy_scratchpad from the MAC to the end of the second wait: the
\* 20 MAC bytes are sent, msleep(10), during which the chip compares the
\* MAC and does its transfer
w1_ds2432_copy_scratchpad_mac(c, mac, env) ==
  LET copy_scratchpad_mac == MacWireBytes(mac)
  IN  [chip |-> ChipDrive(IF env.act THEN ChipCommit(c) ELSE ChipCopyEnd(c), env.success),
       ev |-> <<EvWrite(copy_scratchpad_mac), EvSleep(10)>>]

\* the rest of w1_ds2432_copy_scratchpad: the status byte is read and
\* classified
w1_ds2432_copy_scratchpad(c) ==
  [ret |-> copy_scratchpad_status(c.status),
   chip |-> ChipDrive(c, BUS_IDLE),
   success |-> c.status,
   ev |-> <<EvRead(1)>>]

\* a count that is cut for offsets past the end only
w1_b3_fix_count_no_clamp(off, count, size) ==
  IF off > size THEN 0
  ELSE count

w1_b3_fix_count(off, count, size) ==
  IF off > size THEN 0
  ELSE IF off + count > size THEN size - off
  ELSE count

-----------------------------------------------------------------------------
(* The handlers' state.                                                    *)

Zeros(n) == [i \in 1..n |-> 0]

\* the arguments and locals of a handler; error holds the value the last
\* command returned to it, b3_data is sl->family_data as the handler loaded
\* it ("NULL" before), and raced tells that another memcpy into the shadow
\* ended while the handler's own was storing
NoLoc ==
  [ op |-> "none", off |-> 0, count |-> 0, buf |-> <<>>, base |-> 0,
    address |-> 0, result |-> 0, error |-> 0,
    sp_address |-> 0, es |-> 0, scratchpad |-> Zeros(8),
    data_memory_page |-> Zeros(32), mac |-> <<>>, success |-> 0, ret |-> 0,
    b3_data |-> "NULL", raced |-> FALSE ]

\* what the claims remember of a handler: the EEPROM and the shadow when it
\* took the bus, and the shadow bytes it last read for a MAC or an install
NoGhost == [eeprom0 |-> <<>>, secret0 |-> <<>>, used_secret |-> <<>>]

\* what the callers pass in
UserData == [j \in 1..(8 * MaxBlocks) |-> j]
WriteOffs == {0, 8}
WriteCounts == {8 * k : k \in 1..MaxBlocks}
ReadOffs == {0, 124, 128, 129}
ReadCounts == {0, 8}
\* the secrets written through the secret attribute: the first two bytes and
\* the last two bytes of the README's second secret over the blank shadow, so
\* that the torn values of a race stay few
SecretInputs == {<<170, 187, 0, 0, 0, 0, 0, 0>>, <<0, 0, 0, 0, 0, 0, 17, 34>>}

\* the register-page fields read through w1_ds2432_read_memory after a
\* reset-and-select of the handler: name, offset in the register page, size
Fields ==
  { [op |-> "write_protect_secret_read", base |-> 0, size |-> 1],
    [op |-> "user_byte_read", base |-> 2, size |-> 1],
    [op |-> "factory_byte_read", base |-> 3, size |-> 1],
    [op |-> "manufacturer_id_read", base |-> 6, size |-> 2],
    [op |-> "registration_number_read", base |-> 8, size |-> 8] }

FieldOps == {f.op : f \in Fields}

Init ==
  /\ pc = [t \in Threads |-> "idle"]
  /\ loc = [t \in Threads |-> NoLoc]
  /\ wire = [t \in Threads |-> <<>>]
  /\ bus_mutex = 0
  /\ secret = SecretZero
  /\ \E wp \in BOOLEAN : chip = ChipInit(wp)
  /\ ghost = [t \in Threads |-> NoGhost]
  /\ faults = MaxFaults
  /\ CONFIG_W1_SLAVE_DS2432_CRC \in BOOLEAN
  /\ family_data = "data"

\* the handler of thread t goes to label l with locals r
Goto(t, l, r) ==
  /\ pc' = [pc EXCEPT ![t] = l]
  /\ loc' = [loc EXCEPT ![t] = r]

Log(t, ev) == wire' = [wire EXCEPT ![t] = @ \o ev]

\* the environment spends n faults
Spend(n) ==
  /\ n <= faults
  /\ faults' = faults - n

\* a call starts on thread t at label l with the arguments r; the threads
\* are numbered in the order their calls start
Start(t, l, r) ==
  /\ pc[t] = "idle"
  /\ \A u \in Threads : u < t => pc[u] # "idle"
  /\ Goto(t, l, r)
  /\ UNCHANGED <<device, wire, bus_mutex, secret, chip, ghost, faults>>

\* the result of w1_reset_select_slave(sl), as the environment chooses it
ResetOutcomes == BOOLEAN

\* thread t dereferences a NULL b3_data: the kernel stops the thread where
\* it stands, with what it holds
Oops(t) ==
  /\ pc' = [pc EXCEPT ![t] = "oops"]
  /\ UNCHANGED loc

\* the threads other than t whose memcpy into the shadow is storing
Storing(t) == {u \in Threads \ {t} : pc[u] = "sw_memcpy" /\ loc[u].b3_data = "data"}

\* what a read of the 8 bytes of b3_data->secret by thread t may give: byte
\* i is the byte in memory, or the byte a memcpy that is storing puts there
SecretReads(t) ==
  { [i \in 1..8 |-> IF m[i] = 0 THEN secret[i] ELSE loc[m[i]].buf[i]] :
      m \in [1..8 -> {0} \cup Storing(t)] }

\* kfree is not part of the driver: once the w1_b3_data block was freed
\* nothing says what a read of 8 of its bytes gives
FreedField == [i \in 1..8 |-> Unowned]

\* what thread t reads of *b3_data through the pointer it loaded: the two
\* fields of the block.  After kfree a read of a field gives what the field
\* held, or bytes of which nothing is known, whatever the read of the other
\* field gives.
B3DataReads(t) ==
  { [secret |-> s, registration_number |-> n] :
      s \in SecretReads(t) \cup (IF family_data = "NULL" THEN {FreedField} ELSE {}),
      n \in {RegistrationNumber}
             \cup (IF family_data = "NULL" THEN {FreedField} ELSE {}) }

-----------------------------------------------------------------------------
(* mutex_lock(&sl->master->bus_mutex) and the exit path out_up.            *)

\* where a handler goes once it owns the bus
AfterLock(op) ==
  IF op = "register_page_read" THEN "p_read_memory"
  ELSE IF op = "write_protect_pages_03_read" THEN "q_read_memory"
  ELSE IF op = "eeprom_write" THEN "w_reset"
  ELSE IF op = "eeprom_read" THEN "r_reset"
  ELSE IF op = "secret_sync_write" THEN "s_reset"
  ELSE "f_reset"

mutex_lock(t) ==
  /\ pc[t] = "lock"
  /\ bus_mutex = 0
  /\ bus_mutex' = t
  /\ pc' = [pc EXCEPT ![t] = AfterLock(loc[t].op)]
  /\ ghost' = [ghost EXCEPT ![t].eeprom0 = chip.eeprom, ![t].secret0 = secret]
  /\ UNCHANGED <<device, loc, wire, secret, chip, faults>>

\* the handler op returns ret: its locals are gone, and so is the record of
\* its bus actions
Returned(op, ret) == [NoLoc EXCEPT !.op = op, !.ret = ret]

\* out_up: mutex_unlock(&sl->master->bus_mutex); return count;
mutex_unlock(t) ==
  /\ pc[t] = "out_up"
  /\ bus_mutex' = 0
  /\ Goto(t, "done", Returned(loc[t].op, loc[t].count))
  /\ wire' = [wire EXCEPT ![t] = <<>>]
  /\ ghost' = [ghost EXCEPT ![t] = NoGhost]
  /\ UNCHANGED <<device, secret, chip, faults>>

\* count = -EIO; goto out_up;
handler_reset_failed(r) == [pc |-> "out_up", loc |-> [r EXCEPT !.count = 0 - EIO]]

\* if (w1_reset_select_slave(sl)) { count = -EIO; goto out_up; } of a handler
\* standing at label l; it goes on to next with locals r
HandlerReset(t, l, next, r) ==
  /\ pc[t] = l
  /\ \E rs_ok \in ResetOutcomes :
       /\ Spend(IF rs_ok THEN 0 ELSE 1)
       /\ Log(t, <<EvReset(rs_ok)>>)
       /\ IF rs_ok THEN Goto(t, next, r)
          ELSE Goto(t, handler_reset_failed(loc[t]).pc, handler_reset_failed(loc[t]).loc)
  /\ UNCHANGED <<device, bus_mutex, secret, chip, ghost>>

-----------------------------------------------------------------------------
(* eeprom_write and eeprom_write_block.                                    *)

\* the locals of eeprom_write_block on entry
EnterBlock(r) ==
  [r EXCEPT !.error = 0, !.sp_address = 0, !.es = 0, !.scratchpad = Zeros(8),
            !.data_memory_page = Zeros(32), !.mac = <<>>, !.success = 0,
            !.b3_data = family_data]

\* the handler's locals once the block has returned
LeaveBlock(r) == [EnterBlock(r) EXCEPT !.b3_data = "NULL"]

\* &buf[address], the 8 bytes handed to eeprom_write_block
BlockData(r) == SubSeq(r.buf, r.address + 1, r.address + 8)

\* a handler that starts its bus commands without taking the bus mutex
eeprom_write_entry_unlocked == "w_reset"

\* the label eeprom_write starts at: it takes the bus mutex first
eeprom_write_entry == "lock"

\* The caller's buffer holds count bytes, count a multiple of 8 here.
eeprom_write_call(t) ==
  \E off \in WriteOffs, count \in WriteCounts :
    /\ off + count <= W1_DS2432_DATA_MEMORY_SIZE
    /\ Start(t, eeprom_write_entry,
             [NoLoc EXCEPT !.op = "eeprom_write", !.off = off, !.count = count,
                           !.buf = SubSeq(UserData, 1, count)])

\* a loop that writes the whole blocks of count only
eeprom_write_while_whole_blocks(r) ==
  IF r.address + 8 <= r.count THEN [pc |-> "wb_read_memory", loc |-> EnterBlock(r)]
  ELSE [pc |-> "out_up", loc |-> r]

\* while (address < count), entered with the locals r
eeprom_write_while(r) ==
  IF r.address < r.count THEN [pc |-> "wb_read_memory", loc |-> EnterBlock(r)]
  ELSE [pc |-> "out_up", loc |-> r]

eeprom_write_reset(t) ==
  LET w == eeprom_write_while([loc[t] EXCEPT !.address = 0, !.result = 0])
  IN  HandlerReset(t, "w_reset", w.pc, w.loc)

\* 1. Read the first 28 bytes of the target address to generate the MAC.
eeprom_write_block_read_memory(t) ==
  /\ pc[t] = "wb_read_memory"
  /\ \E rs_ok \in ResetOutcomes :
       \E r \in {loc[t]} :
       \E res \in {w1_ds2432_read_memory(chip, rs_ok, (r.address \div 32) * 32,
                    r.data_memory_page, 32)} :
         /\ Spend(IF rs_ok THEN 0 ELSE 1)
         /\ Log(t, res.ev)
         /\ Goto(t, IF res.ret < 0 THEN "wb_ret" ELSE "wb_write_scratchpad",
                 [r EXCEPT !.data_memory_page = res.memory, !.error = res.ret])
  /\ UNCHANGED <<device, bus_mutex, secret, chip, ghost>>

\* the faults the environment may choose for one write-scratchpad command
WriteScratchpadFaults ==
  { f \in [rs_ok : ResetOutcomes, txerr : TxErrs, crcerr : CrcErrs] :
      /\ ~f.rs_ok => (f.txerr = NoTxErr /\ f.crcerr = NoCrcErr)
      /\ f.crcerr.mask => f.txerr.flip # NoFlip
      /\ f.txerr.pf => f.crcerr = NoCrcErr }

FaultCost(f) == IF f.rs_ok /\ f.txerr = NoTxErr /\ f.crcerr = NoCrcErr THEN 0 ELSE 1

\* 2. Write data to the scratchpad.
eeprom_write_block_write_scratchpad(t) ==
  /\ pc[t] = "wb_write_scratchpad"
  /\ \E f \in WriteScratchpadFaults :
       \E r \in {loc[t]} :
       \E res \in {w1_ds2432_write_scratchpad(CONFIG_W1_SLAVE_DS2432_CRC, chip,
                    f.rs_ok, r.address, BlockData(r), f.txerr, f.crcerr)} :
         /\ Spend(FaultCost(f))
         /\ Log(t, res.ev)
         /\ chip' = res.chip
         /\ Goto(t, IF res.ret < 0 THEN "wb_ret" ELSE "wb_read_scratchpad",
                 [r EXCEPT !.error = res.ret])
  /\ UNCHANGED <<device, bus_mutex, secret, ghost>>

\* the checks without the comparison of the data read back
eeprom_write_block_verify_no_memcmp(address, sp_address, es, scratchpad, data) ==
  IF sp_address # address THEN 0 - EIO
  ELSE IF (es \div 32) % 2 = 1 THEN 0 - EIO
  ELSE 0

\* the three checks of eeprom_write_block on what read-scratchpad returned
eeprom_write_block_verify(address, sp_address, es, scratchpad, data) ==
  IF sp_address # address THEN 0 - EIO
  ELSE IF (es \div 32) % 2 = 1 THEN 0 - EIO
  ELSE IF scratchpad # data THEN 0 - EIO
  ELSE 0

\* 3. Read back the scratchpad, making sure the data made it.
eeprom_write_block_read_scratchpad(t) ==
  /\ pc[t] = "wb_read_scratchpad"
  /\ \E rs_ok \in ResetOutcomes, rxerr \in RxErrs :
       \E r \in {loc[t]} :
       \E res \in {w1_ds2432_read_scratchpad(CONFIG_W1_SLAVE_DS2432_CRC, chip, rs_ok, rxerr,
                    r.sp_address, r.es, r.scratchpad)} :
       LET error == IF res.ret < 0 THEN res.ret
               ELSE eeprom_write_block_verify(r.address, res.address, res.es,
               res.data, BlockData(r))
       IN  /\ ~rs_ok => rxerr = NoFlip
           /\ Spend(IF rs_ok /\ rxerr = NoFlip THEN 0 ELSE 1)
           /\ Log(t, res.ev)
           /\ Goto(t, IF error < 0 THEN "wb_ret" ELSE "wb_mac",
                   [r EXCEPT !.sp_address = res.address, !.es = res.es,
                             !.scratchpad = res.data, !.error = error])
  /\ UNCHANGED <<device, bus_mutex, secret, chip, ghost>>

\* 4. Generate MAC: b3_data->secret and b3_data->registration_number are
\* read here, through the pointer loaded on entry
eeprom_write_block_generate_mac(t) ==
  /\ pc[t] = "wb_mac"
  /\ \E r \in {loc[t]} :
       IF r.b3_data = "NULL"
       THEN Oops(t) /\ UNCHANGED ghost
       ELSE \E d \in B3DataReads(t) :
              /\ Goto(t, "wb_copy",
                      [r EXCEPT !.mac = generate_mac(d.secret, r.scratchpad, r.address,
                                          r.data_memory_page, d.registration_number)])
              /\ ghost' = [ghost EXCEPT ![t].used_secret = d.secret]
  /\ UNCHANGED <<device, wire, bus_mutex, secret, chip, faults>>

\* 5. Issue copy scratchpad: the command
eeprom_write_block_copy_scratchpad_command(t) ==
  /\ pc[t] = "wb_copy"
  /\ \E rs_ok \in ResetOutcomes :
       \E r \in {loc[t]} :
       \E res \in {w1_ds2432_copy_scratchpad_command(chip, rs_ok, r.sp_address, r.es)} :
         /\ Spend(IF rs_ok THEN 0 ELSE 1)
         /\ Log(t, res.ev)
         /\ chip' = res.chip
         /\ Goto(t, IF res.ret < 0 THEN "wb_ret" ELSE "wb_copy_mac",
                 [r EXCEPT !.error = res.ret])
  /\ UNCHANGED <<device, bus_mutex, secret, ghost>>

\* 5. Issue copy scratchpad: the MAC, and msleep(10)
eeprom_write_block_copy_scratchpad_mac(t) ==
  /\ pc[t] = "wb_copy_mac"
  /\ \E glitch \in BOOLEAN :
       \E r \in {loc[t]} :
       \E env \in CopyScratchpadEnv(chip, r.sp_address, r.es,
                                    MacWireBytes(r.mac), glitch) :
       \E res \in {w1_ds2432_copy_scratchpad_mac(chip, r.mac, env)} :
         /\ Spend(IF glitch THEN 1 ELSE 0)
         /\ Log(t, res.ev)
         /\ chip' = res.chip
         /\ Goto(t, "wb_copy_status", r)
  /\ UNCHANGED <<device, bus_mutex, secret, ghost>>

\* 5. Issue copy scratchpad: the status byte, after the wait
eeprom_write_block_copy_scratchpad(t) ==
  /\ pc[t] = "wb_copy_status"
  /\ \E r \in {loc[t]} :
     \E res \in {w1_ds2432_copy_scratchpad(chip)} :
       /\ Log(t, res.ev)
       /\ chip' = res.chip
       /\ Goto(t, "wb_ret", [r EXCEPT !.success = res.success, !.error = res.ret])
  /\ UNCHANGED <<device, bus_mutex, secret, ghost, faults>>

\* a loop that goes on to the next block whatever the block returned
eeprom_write_next_continue(r) ==
  eeprom_write_while([LeaveBlock(r) EXCEPT !.result = r.error,
                                           !.address = (r.address + 8) % 256])

\* result = eeprom_write_block(...); if (result < 0) { count = result; goto
\* out_up; } address += 8; and the loop test.  The block's locals are gone.
eeprom_write_next(r) ==
  LET q == [LeaveBlock(r) EXCEPT !.result = r.error]
  IN  IF q.result < 0
      THEN [pc |-> "out_up", loc |-> [q EXCEPT !.count = q.result]]
      ELSE eeprom_write_while([q EXCEPT !.address = (q.address + 8) % 256])

eeprom_write_loop(t) ==
  /\ pc[t] = "wb_ret"
  /\ LET n == eeprom_write_next(loc[t]) IN Goto(t, n.pc, n.loc)
  /\ UNCHANGED <<device, wire, bus_mutex, secret, chip, ghost, faults>>

-----------------------------------------------------------------------------
(* eeprom_read.                                                            *)

\* the label eeprom_read goes to with a non-zero count
eeprom_read_entry == "lock"

\* eeprom_read is called with a buffer of count bytes for the offset off
eeprom_read_start(t, off, count) ==
  LET fixed == w1_b3_fix_count(off, count, W1_DS2432_DATA_MEMORY_SIZE)
      r == [NoLoc EXCEPT !.op = "eeprom_read", !.off = off, !.count = fixed,
                         !.buf = Zeros(count)]
  IN  IF fixed = 0 THEN Start(t, "done", Returned(r.op, 0))
      ELSE Start(t, eeprom_read_entry, r)

eeprom_read_call(t) ==
  \E off \in ReadOffs, count \in ReadCounts : eeprom_read_start(t, off, count)

eeprom_read_reset(t) == HandlerReset(t, "r_reset", "r_read_memory", loc[t])

\* w1_ds2432_read_memory(sl, off, buf, count); its return value is not looked
\* at (error keeps it for the claims)
eeprom_read_read_memory(t) ==
  /\ pc[t] = "r_read_memory"
  /\ \E rs_ok \in ResetOutcomes :
       \E r \in {loc[t]} :
       \E res \in {w1_ds2432_read_memory(chip, rs_ok, r.off, r.buf, r.count)} :
         /\ Spend(IF rs_ok THEN 0 ELSE 1)
         /\ Log(t, res.ev)
         /\ Goto(t, "out_up",
                 [r EXCEPT !.buf = res.memory, !.error = res.ret])
  /\ UNCHANGED <<device, bus_mutex, secret, chip, ghost>>

-----------------------------------------------------------------------------
(* secret_write: memcpy(b3_data->secret, buf, 8) without the bus mutex.    *)
(* Neither the copy nor the reads of the shadow are atomic, and nothing    *)
(* orders them: while the memcpy of a thread stands at "sw_memcpy" each of *)
(* its 8 bytes is stored or is not yet, byte by byte in any order.         *)

secret_write_call(t) ==
  \E s \in SecretInputs :
    Start(t, "sw_memcpy",
          [NoLoc EXCEPT !.op = "secret_write", !.count = 8, !.buf = s,
                        !.b3_data = family_data])

\* the memcpy of thread t is over.  The bytes of a memcpy that ended while
\* this one was storing lie over those this one had stored before.
secret_write_memcpy(t) ==
  /\ pc[t] = "sw_memcpy"
  /\ IF loc[t].b3_data = "NULL"
     THEN Oops(t) /\ UNCHANGED secret
     ELSE /\ \E m \in [1..8 -> IF loc[t].raced THEN BOOLEAN ELSE {TRUE}] :
               secret' = [i \in 1..8 |-> IF m[i] THEN loc[t].buf[i] ELSE secret[i]]
          /\ pc' = [pc EXCEPT ![t] = "done"]
          /\ loc' = [u \in Threads |->
                      IF u = t THEN Returned(loc[t].op, loc[t].count)
                      ELSE IF u \in Storing(t) THEN [loc[u] EXCEPT !.raced = TRUE]
                      ELSE loc[u]]
  /\ UNCHANGED <<device, wire, bus_mutex, chip, ghost, faults>>

-----------------------------------------------------------------------------
(* secret_read: memcpy(buf, b3_data->secret, 8) without the bus mutex.     *)

secret_read_call(t) ==
  Start(t, "sr_memcpy",
        [NoLoc EXCEPT !.op = "secret_read", !.count = 8, !.buf = Zeros(8),
                      !.b3_data = family_data])

\* the caller gets the 8 bytes read; return 8;
secret_read_memcpy(t) ==
  /\ pc[t] = "sr_memcpy"
  /\ IF loc[t].b3_data = "NULL"
     THEN Oops(t)
     ELSE \E d \in B3DataReads(t) :
            Goto(t, "done", [Returned(loc[t].op, 8) EXCEPT !.buf = d.secret])
  /\ UNCHANGED <<device, wire, bus_mutex, secret, chip, ghost, faults>>

-----------------------------------------------------------------------------
(* secret_sync_write and w1_ds2432_write_secret.                           *)

secret_sync_write_entry == "lock"

secret_sync_write_call(t) ==
  Start(t, secret_sync_write_entry,
        [NoLoc EXCEPT !.op = "secret_sync_write", !.count = 1, !.buf = <<49>>,
                      !.b3_data = family_data])

secret_sync_write_reset(t) == HandlerReset(t, "s_reset", "ws_reset", loc[t])

\* what secret_sync_write returns when w1_ds2432_write_secret returned error
secret_sync_write_count(count, error) == count

\* w1_ds2432_write_secret returns error to secret_sync_write
WriteSecretReturn(t, r, error) ==
  Goto(t, "out_up",
       [r EXCEPT !.error = error, !.count = secret_sync_write_count(r.count, error)])

\* if (w1_reset_select_slave(sl)) return -EIO; of w1_ds2432_write_secret
write_secret_reset(t) ==
  /\ pc[t] = "ws_reset"
  /\ \E rs_ok \in ResetOutcomes :
       /\ Spend(IF rs_ok THEN 0 ELSE 1)
       /\ Log(t, <<EvReset(rs_ok)>>)
       /\ IF rs_ok THEN Goto(t, "ws_write_scratchpad", loc[t])
          ELSE WriteSecretReturn(t, loc[t], 0 - EIO)
  /\ UNCHANGED <<device, bus_mutex, secret, chip, ghost>>

\* 1. Send a WRITE_SCRATCHPAD command to the buffer where the secret is stored.
\* The 8 bytes of b3_data->secret are read for the frame, after the reset
\* and select of the command.
write_secret_write_scratchpad(t) ==
  /\ pc[t] = "ws_write_scratchpad"
  /\ \E f \in WriteScratchpadFaults :
       \E r \in {loc[t]} :
         /\ Spend(FaultCost(f))
         /\ IF ~f.rs_ok
            THEN \E res \in {w1_ds2432_write_scratchpad(CONFIG_W1_SLAVE_DS2432_CRC, chip,
                               f.rs_ok, W1_DS2432_SECRET_ADDR, secret, f.txerr, f.crcerr)} :
                   /\ Log(t, res.ev)
                   /\ WriteSecretReturn(t, r, res.ret)
                   /\ UNCHANGED <<chip, ghost>>
            ELSE IF r.b3_data = "NULL"
            THEN /\ FaultCost(f) = 0
                 /\ Log(t, <<EvReset(TRUE)>>)
                 /\ pc' = [pc EXCEPT ![t] = "oops"]
                 /\ UNCHANGED <<loc, chip, ghost>>
            ELSE \E d \in B3DataReads(t) :
                 \E res \in {w1_ds2432_write_scratchpad(CONFIG_W1_SLAVE_DS2432_CRC, chip,
                               f.rs_ok, W1_DS2432_SECRET_ADDR, d.secret, f.txerr, f.crcerr)} :
                   /\ Log(t, res.ev)
                   /\ chip' = res.chip
                   /\ ghost' = [ghost EXCEPT ![t].used_secret = d.secret]
                   /\ IF res.ret < 0 THEN WriteSecretReturn(t, r, res.ret)
                      ELSE Goto(t, "ws_read_scratchpad", [r EXCEPT !.error = res.ret])
  /\ UNCHANGED <<device, bus_mutex, secret>>

\* the address check alone
write_secret_verify_address_only(address, es) ==
  IF address # W1_DS2432_SECRET_ADDR THEN 0 - EIO
  ELSE 0

\* the two checks of w1_ds2432_write_secret on what read-scratchpad returned
write_secret_verify(address, es) ==
  IF address # W1_DS2432_SECRET_ADDR THEN 0 - EIO
  ELSE IF (es \div 32) % 2 = 1 THEN 0 - EIO
  ELSE 0

\* 2. Get the authorization pattern
write_secret_read_scratchpad(t) ==
  /\ pc[t] = "ws_read_scratchpad"
  /\ \E rs_ok \in ResetOutcomes, rxerr \in RxErrs :
       \E r \in {loc[t]} :
       \E res \in {w1_ds2432_read_scratchpad(CONFIG_W1_SLAVE_DS2432_CRC, chip, rs_ok, rxerr,
                    r.sp_address, r.es, r.scratchpad)} :
       LET error == IF res.ret < 0 THEN res.ret
               ELSE write_secret_verify(res.address, res.es)
           q == [r EXCEPT !.sp_address = res.address, !.es = res.es,
               !.scratchpad = res.data]
       IN  /\ ~rs_ok => rxerr = NoFlip
           /\ Spend(IF rs_ok /\ rxerr = NoFlip THEN 0 ELSE 1)
           /\ Log(t, res.ev)
           /\ IF error < 0 THEN WriteSecretReturn(t, q, error)
              ELSE Goto(t, "ws_load", [q EXCEPT !.error = error])
  /\ UNCHANGED <<device, bus_mutex, secret, chip, ghost>>

\* 3. Transmit the Load First Secret: the command, and msleep(10)
write_secret_load_first_secret_command(t) ==
  /\ pc[t] = "ws_load"
  /\ \E rs_ok \in ResetOutcomes, glitch \in BOOLEAN :
       /\ ~rs_ok => ~glitch
       /\ Spend(IF rs_ok /\ ~glitch THEN 0 ELSE 1)
       /\ \E env \in (IF rs_ok
                      THEN LoadFirstSecretEnv(chip, loc[t].sp_address, loc[t].es, glitch)
                      ELSE {[act |-> FALSE, success |-> 0]}) :
            \E r \in {loc[t]} :
            \E res \in {w1_ds2432_load_first_secret_command(chip, rs_ok, r.sp_address,
                                                            r.es, env)} :
              /\ Log(t, res.ev)
              /\ chip' = res.chip
              /\ IF res.ret < 0 THEN WriteSecretReturn(t, r, res.ret)
                 ELSE Goto(t, "ws_load_status", r)
  /\ UNCHANGED <<device, bus_mutex, secret, ghost>>

\* 3. Transmit the Load First Secret: the status byte, after the wait;
\* w1_reset_bus(sl->master) on success
write_secret_load_first_secret(t) ==
  /\ pc[t] = "ws_load_status"
  /\ \E r \in {loc[t]} :
     \E res \in {w1_ds2432_load_first_secret(chip)} :
       /\ Log(t, IF res.ret < 0 THEN res.ev ELSE res.ev \o <<EvResetBus>>)
       /\ chip' = res.chip
       /\ WriteSecretReturn(t, [r EXCEPT !.success = res.success], res.ret)
  /\ UNCHANGED <<device, bus_mutex, secret, ghost, faults>>

-----------------------------------------------------------------------------
(* The register page handlers.                                             *)

register_page_read_entry == "lock"

register_page_read_call(t) ==
  Start(t, register_page_read_entry,
        [NoLoc EXCEPT !.op = "register_page_read",
                      !.count = W1_DS2432_REGISTER_PAGE_SIZE,
                      !.buf = Zeros(W1_DS2432_REGISTER_PAGE_SIZE)])

\* if (w1_ds2432_read_memory(...)) { count = -EIO; goto out_up; }
\* w1_reset_bus(sl->master);
register_page_read_read_memory(t) ==
  /\ pc[t] = "p_read_memory"
  /\ \E rs_ok \in ResetOutcomes :
       \E r \in {loc[t]} :
       \E res \in {w1_ds2432_read_memory(chip, rs_ok,
                    W1_DS2432_REGISTER_PAGE_ADDR + r.off, r.buf,
                    W1_DS2432_REGISTER_PAGE_SIZE)} :
         /\ Spend(IF rs_ok THEN 0 ELSE 1)
         /\ Log(t, IF res.ret # 0 THEN res.ev ELSE res.ev \o <<EvResetBus>>)
         /\ Goto(t, "out_up",
                 [r EXCEPT !.buf = res.memory, !.error = res.ret,
                           !.count = IF res.ret # 0 THEN 0 - EIO ELSE r.count])
  /\ UNCHANGED <<device, bus_mutex, secret, chip, ghost>>

write_protect_pages_03_read_entry == "lock"

write_protect_pages_03_read_call(t) ==
  Start(t, write_protect_pages_03_read_entry,
        [NoLoc EXCEPT !.op = "write_protect_pages_03_read", !.count = 1,
                      !.buf = Zeros(1)])

\* one byte is read at register page offset 1; buf[0] is '1' when it is 0x55
\* or 0xAA and '0' otherwise; count = 1
write_protect_pages_03_read_read_memory(t) ==
  /\ pc[t] = "q_read_memory"
  /\ \E rs_ok \in ResetOutcomes :
       \E r \in {loc[t]} :
       \E res \in {w1_ds2432_read_memory(chip, rs_ok,
                    W1_DS2432_REGISTER_PAGE_ADDR + 1 + r.off,
                    Zeros(1), 1)} :
       LET write_protected == res.memory
       IN  /\ Spend(IF rs_ok THEN 0 ELSE 1)
           /\ Log(t, IF res.ret # 0 THEN res.ev ELSE res.ev \o <<EvResetBus>>)
           /\ IF res.ret # 0
              THEN Goto(t, "out_up", [r EXCEPT !.error = res.ret, !.count = 0 - EIO])
              ELSE Goto(t, "out_up",
                        [r EXCEPT !.error = res.ret, !.count = 1,
                                  !.buf = IF write_protected[1] \in {85, 170}
                                          THEN <<49>> ELSE <<48>>])
  /\ UNCHANGED <<device, bus_mutex, secret, chip, ghost>>

\* write_protect_secret_read, user_byte_read, factory_byte_read,
\* manufacturer_id_read and registration_number_read: the same code but for
\* the offset in the register page
field_read_entry == "lock"

field_read_call(t) ==
  \E f \in Fields :
    Start(t, field_read_entry,
          [NoLoc EXCEPT !.op = f.op, !.base = f.base, !.count = f.size,
                        !.buf = Zeros(f.size)])

field_read_reset(t) == HandlerReset(t, "f_reset", "f_read_memory", loc[t])

\* w1_ds2432_read_memory(sl, W1_DS2432_REGISTER_PAGE_ADDR + base + off, buf,
\* count); its return value is not looked at
field_read_read_memory(t) ==
  /\ pc[t] = "f_read_memory"
  /\ \E rs_ok \in ResetOutcomes :
       \E r \in {loc[t]} :
       \E res \in {w1_ds2432_read_memory(chip, rs_ok,
                    W1_DS2432_REGISTER_PAGE_ADDR + r.base + r.off,
                    r.buf, r.count)} :
         /\ Spend(IF rs_ok THEN 0 ELSE 1)
         /\ Log(t, res.ev)
         /\ Goto(t, "out_up", [r EXCEPT !.buf = res.memory, !.error = res.ret])
  /\ UNCHANGED <<device, bus_mutex, secret, chip, ghost>>

-----------------------------------------------------------------------------
(* The specification.                                                      *)

Step(t) ==
    \/ eeprom_write_call(t)
    \/ eeprom_read_call(t)
    \/ secret_read_call(t)
    \/ secret_write_call(t)
    \/ secret_sync_write_call(t)
    \/ register_page_read_call(t)
    \/ write_protect_pages_03_read_call(t)
    \/ field_read_call(t)
    \/ mutex_lock(t)
    \/ mutex_unlock(t)
    \/ eeprom_write_reset(t)
    \/ eeprom_write_block_read_memory(t)
    \/ eeprom_write_block_write_scratchpad(t)
    \/ eeprom_write_block_read_scratchpad(t)
    \/ eeprom_write_block_generate_mac(t)
    \/ eeprom_write_block_copy_scratchpad_command(t)
    \/ eeprom_write_block_copy_scratchpad_mac(t)
    \/ eeprom_write_block_copy_scratchpad(t)
    \/ eeprom_write_loop(t)
    \/ eeprom_read_reset(t)
    \/ eeprom_read_read_memory(t)
    \/ secret_read_memcpy(t)
    \/ secret_write_memcpy(t)
    \/ secret_sync_write_reset(t)
    \/ write_secret_reset(t)
    \/ write_secret_write_scratchpad(t)
    \/ write_secret_read_scratchpad(t)
    \/ write_secret_load_first_secret_command(t)
    \/ write_secret_load_first_secret(t)
    \/ register_page_read_read_memory(t)
    \/ write_protect_pages_03_read_read_memory(t)
    \/ field_read_reset(t)
    \/ field_read_read_memory(t)

\* kfree(sl->family_data); sl->family_data = NULL; run by the thread of the
\* bus master when the device is gone, whatever the handlers are doing
w1_b3_remove_slave ==
  /\ family_data = "data"
  /\ family_data' = "NULL"
  /\ UNCHANGED <<pc, loc, wire, bus_mutex, secret, chip, ghost, faults,
                 CONFIG_W1_SLAVE_DS2432_CRC>>

Next ==
  \/ \E t \in Threads : Step(t)
  \/ w1_b3_remove_slave

Spec == Init /\ [][Next]_vars

\* The scheduler keeps running the handlers: as long as a thread can take a
\* step, a step is taken.
FairSpec == Spec /\ WF_vars(Next)

-----------------------------------------------------------------------------
(* One whole-buffer write on an error-free bus, of every length up to the  *)
(* size of the data memory: the call has been made on thread 1 and waits   *)
(* for the bus.  The chip holds any of the secrets, and so does the        *)
(* shadow; the data memory is blank or already written.                    *)

\* the caller's buffer, up to the size of the eeprom attribute
FullData == [j \in 1..W1_DS2432_DATA_MEMORY_SIZE |-> j]

\* a data memory written before: byte i holds 255 - i
OldData == [i \in 1..W1_DS2432_DATA_MEMORY_SIZE |-> 256 - i]

AllSecrets == {SecretZero, SecretReadme1, SecretReadme2}

WriteInit ==
  /\ \E count \in {8 * k : k \in 1..(W1_DS2432_DATA_MEMORY_SIZE \div 8)} :
       /\ pc = [t \in Threads |-> IF t = 1 THEN eeprom_write_entry ELSE "idle"]
       /\ loc = [t \in Threads |->
                  IF t = 1
                  THEN [NoLoc EXCEPT !.op = "eeprom_write", !.off = 0,
                                     !.count = count,
                                     !.buf = SubSeq(FullData, 1, count)]
                  ELSE NoLoc]
  /\ wire = [t \in Threads |-> <<>>]
  /\ bus_mutex = 0
  /\ secret \in AllSecrets
  /\ \E wp \in BOOLEAN, s \in AllSecrets, e \in {Zeros(W1_DS2432_DATA_MEMORY_SIZE), OldData} :
       chip = [ChipInit(wp) EXCEPT !.secret = s, !.eeprom = e]
  /\ ghost = [t \in Threads |-> NoGhost]
  /\ faults = 0
  /\ CONFIG_W1_SLAVE_DS2432_CRC \in BOOLEAN
  /\ family_data = "data"

WriteNext ==
  \E t \in Threads :
    \/ mutex_lock(t)
    \/ eeprom_write_reset(t)
    \/ eeprom_write_block_read_memory(t)
    \/ eeprom_write_block_write_scratchpad(t)
    \/ eeprom_write_block_read_scratchpad(t)
    \/ eeprom_write_block_generate_mac(t)
    \/ eeprom_write_block_copy_scratchpad_command(t)
    \/ eeprom_write_block_copy_scratchpad_mac(t)
    \/ eeprom_write_block_copy_scratchpad(t)
    \/ eeprom_write_loop(t)
    \/ mutex_unlock(t)

WriteSpec == WriteInit /\ [][WriteNext]_vars

\* The whole-EEPROM read of offsets and counts in, at and past the data
\* memory, beside the other handlers' use of the bus mutex.
AnyReadOffs == {0, 1, 64, 121, 127, 128, 129, 4096}

AnyReadCounts == {0, 1, 7, 8, 127, 128, 129, 200}

eeprom_read_any(t) ==
  \E off \in AnyReadOffs, count \in AnyReadCounts : eeprom_read_start(t, off, count)

ReadNext ==
  \E t \in Threads :
    \/ eeprom_read_any(t)
    \/ mutex_lock(t)
    \/ eeprom_read_reset(t)
    \/ eeprom_read_read_memory(t)
    \/ mutex_unlock(t)

ReadSpec == Init /\ [][ReadNext]_vars

\* the bytes &buf[0] .. of a call with count bytes, up to the end of the
\* last 8 bytes the loop reads: the caller's bytes, and past them bytes
\* that are not the caller's
LoopBuffer(count) ==
  [j \in 1..(8 * ((count + 7) \div 8)) |-> IF j <= count THEN FullData[j] ELSE Beyond(j)]

\* The whole-buffer write of any count the eeprom attribute lets through
\* (1 .. 128 from offset 0).  The handler reads its buffer in steps of 8
\* bytes: what lies in the buffer past count is not the caller's, and
\* nothing says what it is.
LoopInit ==
  /\ \E count \in 1..W1_DS2432_DATA_MEMORY_SIZE :
       /\ pc = [t \in Threads |-> IF t = 1 THEN eeprom_write_entry ELSE "idle"]
       /\ loc = [t \in Threads |->
                  IF t = 1
                  THEN [NoLoc EXCEPT !.op = "eeprom_write", !.off = 0,
                                     !.count = count,
                                     !.buf = LoopBuffer(count)]
                  ELSE NoLoc]
  /\ wire = [t \in Threads |-> <<>>]
  /\ bus_mutex = 0
  /\ secret = SecretZero
  /\ chip = [ChipInit(FALSE) EXCEPT !.eeprom = OldData]
  /\ ghost = [t \in Threads |-> NoGhost]
  /\ faults = 0
  /\ CONFIG_W1_SLAVE_DS2432_CRC \in BOOLEAN
  /\ family_data = "data"

LoopSpec == LoopInit /\ [][WriteNext]_vars

-----------------------------------------------------------------------------
(* The functions of the core called on their own: thread 1 stands at a     *)
(* call of one function, loc[1] holds its name fn and its arguments in,    *)
(* and the step performs the call and stores what it returns in out.       *)

\* the 64-byte blocks the transform is called with: one-block messages
\* padded as SHA-1 pads them ("abc", the empty message) and byte ramps
AbcBlock == [i \in 1..64 |-> IF i = 1 THEN 97 ELSE IF i = 2 THEN 98
                             ELSE IF i = 3 THEN 99 ELSE IF i = 4 THEN 128
                             ELSE IF i = 64 THEN 24 ELSE 0]

EmptyBlock == [i \in 1..64 |-> IF i = 1 THEN 128 ELSE 0]

ShaCalls ==
  { [fn |-> "maxim_sha_transform", in |-> b, out |-> <<>>] :
      b \in {AbcBlock, EmptyBlock} \cup
             { [i \in 1..64 |-> (a * i + b0) % 256] :
                 a \in {0, 1, 3, 85, 128, 255}, b0 \in {0, 1, 127, 128, 170, 255} } }

\* the MACs copy scratchpad is called with: words of distinct bytes, and
\* the MAC the blank chip computes itself
MacSamples ==
  { [k \in 1..5 |-> <<(m * k + 258) % 65536, (3 * m * k + 772) % 65536>>] :
      m \in {0, 1028, 4369, 40000} }
  \cup {ChipMac(ChipInit(FALSE))}

CopyCalls ==
  { [fn |-> "w1_ds2432_copy_scratchpad",
     in |-> [mac |-> m, rs_ok |-> r, address |-> a, es |-> ES_IDLE, glitch |-> g],
     out |-> <<>>] :
      m \in MacSamples, r \in BOOLEAN, a \in {0, 8}, g \in BOOLEAN }

\* load first secret is called with each byte as the status the wire delivers
LoadCalls ==
  { [fn |-> "w1_ds2432_load_first_secret",
     in |-> [rs_ok |-> r, address |-> a, es |-> ES_IDLE,
             env |-> [act |-> (a = 0 /\ b \in {170, 85}), success |-> b]],
     out |-> <<>>] :
      r \in BOOLEAN, a \in {0, 8}, b \in Byte }

\* write scratchpad and then read scratchpad are called with addresses
\* over the 16 bits and 8-byte blocks, in both builds, on a clean wire
ScratchAddresses == {0, 5, 8, 120, 128, 255, 256, 4660, 43981, 65535}

ScratchData ==
  { [i \in 1..8 |-> 0], [i \in 1..8 |-> i], SecretReadme2, [i \in 1..8 |-> 255] }

NoScratchFault == [txerr |-> NoTxErr, crcerr |-> NoCrcErr, rxerr |-> NoFlip]

\* every bit of the first n bytes of a block
Flips(n) == {<<k, Pow2[b]>> : k \in 1..n, b \in 0..7}

\* one flipped bit in the 11-byte write frame, in the 2-byte checksum that
\* answers it, or in the 13-byte reply to read scratchpad
ScratchFaults ==
       {[NoScratchFault EXCEPT !.txerr.flip = f] : f \in Flips(11)}
  \cup {[NoScratchFault EXCEPT !.crcerr.flip = f] : f \in Flips(2)}
  \cup {[NoScratchFault EXCEPT !.rxerr = f] : f \in Flips(13)}

ScratchCalls ==
  { [fn |-> "w1_ds2432_write_scratchpad",
     in |-> [address |-> a, data |-> d, fault |-> NoScratchFault],
     out |-> <<>>] :
      a \in ScratchAddresses, d \in ScratchData }
  \cup
  { [fn |-> "w1_ds2432_write_scratchpad",
     in |-> [address |-> a, data |-> [i \in 1..8 |-> i], fault |-> f],
     out |-> <<>>] :
      a \in {8, 4660}, f \in ScratchFaults }

\* generate_mac is called with every address of 9 bits and with addresses
\* that have higher bits set
PageAddresses == (0..511) \cup {512, 736, 4660, 32768, 33024, 43981, 65535}

MacCalls ==
  { [fn |-> "generate_mac",
     in |-> [secret |-> SecretReadme1, scratchpad |-> [i \in 1..8 |-> i],
             memory_page |-> a, data_memory_page |-> [i \in 1..32 |-> 32 + i],
             serial_number |-> RegistrationNumber],
     out |-> <<>>] :
      a \in PageAddresses }

\* thread 1 stands at one of the calls
FnCalls(calls) == loc \in {[t \in Threads |-> IF t = 1 THEN c ELSE NoLoc] : c \in calls}

FnInit ==
  /\ pc = [t \in Threads |-> IF t = 1 THEN "call" ELSE "idle"]
  /\ \/ FnCalls(ShaCalls)
     \/ FnCalls(CopyCalls)
     \/ FnCalls(LoadCalls)
     \/ FnCalls(ScratchCalls)
     \/ FnCalls(MacCalls)
  /\ wire = [t \in Threads |-> <<>>]
  /\ bus_mutex = 0
  /\ secret = SecretZero
  /\ chip = ChipInit(FALSE)
  /\ ghost = [t \in Threads |-> NoGhost]
  /\ faults = 0
  /\ CONFIG_W1_SLAVE_DS2432_CRC \in BOOLEAN
  /\ family_data = "data"

\* the call of thread t is a call of fn
Calls(t, fn) == pc[t] = "call" /\ loc[t].fn = fn

\* the call of thread t returns out
FnReturn(t, out) == Goto(t, "return", [loc[t] EXCEPT !.out = out])

call_maxim_sha_transform(t) ==
  /\ Calls(t, "maxim_sha_transform")
  /\ FnReturn(t, maxim_sha_transform[loc[t].in])
  /\ UNCHANGED <<device, wire, bus_mutex, secret, chip, ghost, faults>>

\* w1_ds2432_copy_scratchpad, step by step: the command and msleep(2)
call_w1_ds2432_copy_scratchpad_command(t) ==
  /\ Calls(t, "w1_ds2432_copy_scratchpad")
  /\ \E a \in {loc[t].in} :
     \E cmd \in {w1_ds2432_copy_scratchpad_command(chip, a.rs_ok, a.address, a.es)} :
       /\ Log(t, cmd.ev)
       /\ chip' = cmd.chip
       /\ IF cmd.ret < 0 THEN FnReturn(t, [ret |-> cmd.ret, success |-> 0])
          ELSE Goto(t, "call_mac", loc[t])
  /\ UNCHANGED <<device, bus_mutex, secret, ghost, faults>>

\* the MAC and msleep(10)
call_w1_ds2432_copy_scratchpad_mac(t) ==
  /\ pc[t] = "call_mac"
  /\ \E a \in {loc[t].in} :
     \E env \in CopyScratchpadEnv(chip, a.address, a.es, MacWireBytes(a.mac), a.glitch) :
     \E res \in {w1_ds2432_copy_scratchpad_mac(chip, a.mac, env)} :
       /\ Log(t, res.ev)
       /\ chip' = res.chip
       /\ Goto(t, "call_status", loc[t])
  /\ UNCHANGED <<device, bus_mutex, secret, ghost, faults>>

\* the status byte
call_w1_ds2432_copy_scratchpad(t) ==
  /\ pc[t] = "call_status"
  /\ \E res \in {w1_ds2432_copy_scratchpad(chip)} :
       /\ Log(t, res.ev)
       /\ chip' = res.chip
       /\ FnReturn(t, [ret |-> res.ret, success |-> res.success])
  /\ UNCHANGED <<device, bus_mutex, secret, ghost, faults>>

\* w1_ds2432_load_first_secret, step by step: the command and msleep(10)
call_w1_ds2432_load_first_secret_command(t) ==
  /\ Calls(t, "w1_ds2432_load_first_secret")
  /\ \E a \in {loc[t].in} :
     \E cmd \in {w1_ds2432_load_first_secret_command(chip, a.rs_ok, a.address, a.es,
                                                     a.env)} :
       /\ Log(t, cmd.ev)
       /\ chip' = cmd.chip
       /\ IF cmd.ret < 0 THEN FnReturn(t, [ret |-> cmd.ret, success |-> 0])
          ELSE Goto(t, "call_load_status", loc[t])
  /\ UNCHANGED <<device, bus_mutex, secret, ghost, faults>>

\* the status byte
call_w1_ds2432_load_first_secret(t) ==
  /\ pc[t] = "call_load_status"
  /\ \E res \in {w1_ds2432_load_first_secret(chip)} :
       /\ Log(t, res.ev)
       /\ chip' = res.chip
       /\ FnReturn(t, [ret |-> res.ret, success |-> res.success])
  /\ UNCHANGED <<device, bus_mutex, secret, ghost, faults>>

call_w1_ds2432_write_scratchpad(t) ==
  /\ Calls(t, "w1_ds2432_write_scratchpad")
  /\ \E a \in {loc[t].in} :
     \E res \in {w1_ds2432_write_scratchpad(CONFIG_W1_SLAVE_DS2432_CRC, chip, TRUE,
                                            a.address, a.data,
                                            a.fault.txerr, a.fault.crcerr)} :
       /\ Log(t, res.ev)
       /\ chip' = res.chip
       /\ Goto(t, "call_read", [loc[t] EXCEPT !.out = [write_ret |-> res.ret]])
  /\ UNCHANGED <<device, bus_mutex, secret, ghost, faults>>

\* w1_ds2432_read_scratchpad, called after the write scratchpad returned
call_w1_ds2432_read_scratchpad(t) ==
  /\ pc[t] = "call_read"
  /\ \E a \in {loc[t].in} :
     \E res \in {w1_ds2432_read_scratchpad(CONFIG_W1_SLAVE_DS2432_CRC, chip, TRUE,
                                           a.fault.rxerr,
                                           0, 0, Zeros(8))} :
       /\ Log(t, res.ev)
       /\ FnReturn(t, [write_ret |-> loc[t].out.write_ret, ret |-> res.ret,
                       address |-> res.address, es |-> res.es, data |-> res.data])
  /\ UNCHANGED <<device, bus_mutex, secret, chip, ghost, faults>>

\* generate_mac: out holds the message it builds and the MAC it returns
call_generate_mac(t) ==
  /\ Calls(t, "generate_mac")
  /\ \E a \in {loc[t].in} :
       FnReturn(t, [message |-> MacMessage(a.secret, a.scratchpad, a.memory_page,
                                           a.data_memory_page, a.serial_number),
                    sha1 |-> generate_mac(a.secret, a.scratchpad, a.memory_page,
                                          a.data_memory_page, a.serial_number)])
  /\ UNCHANGED <<device, wire, bus_mutex, secret, chip, ghost, faults>>

FnNext ==
  \E t \in Threads :
    \/ call_maxim_sha_transform(t)
    \/ call_w1_ds2432_copy_scratchpad_command(t)
    \/ call_w1_ds2432_copy_scratchpad_mac(t)
    \/ call_w1_ds2432_copy_scratchpad(t)
    \/ call_w1_ds2432_load_first_secret_command(t)
    \/ call_w1_ds2432_load_first_secret(t)
    \/ call_w1_ds2432_write_scratchpad(t)
    \/ call_w1_ds2432_read_scratchpad(t)
    \/ call_generate_mac(t)

FnSpec == FnInit /\ [][FnNext]_vars

-----------------------------------------------------------------------------
(* What the claims speak of.                                               *)

LastEvent(t) == wire[t][Len(wire[t])]

\* the block of thread t has read the status byte of its copy-scratchpad
CopyStatusRead(t) ==
  /\ pc[t] = "wb_ret"
  /\ wire[t] # <<>>
  /\ LastEvent(t) = EvRead(1)

\* the block of thread t ended with its read-scratchpad command
ReadScratchpadLast(t) ==
  /\ pc[t] = "wb_ret"
  /\ Len(wire[t]) >= 4
  /\ wire[t][Len(wire[t]) - 3] = EvWrite(<<DS2432_READ_SCRATCHPAD>>)

\* a block of the whole-buffer write of thread t has just failed
BlockFailed(t) == pc[t] = "wb_ret" /\ loc[t].error < 0

\* the whole-buffer write of thread t is leaving after a failed block
FailedWrite(t) ==
  pc[t] = "out_up" /\ loc[t].op = "eeprom_write" /\ loc[t].result < 0

\* the disposition the specification gives each status byte
Disposition(b) ==
  IF b = 0 THEN 0 - EACCES
  ELSE IF b = 255 THEN 0 - EPERM
  ELSE IF b \in {170, 85} THEN 0
  ELSE 0 - EIO

\* C1: copy-scratchpad classifies the status byte read after the MAC: 0x00
\* gives -EACCES, 0xFF gives -EPERM, 0xAA and 0x55 give 0 and every other
\* byte gives -EIO, for all 256 byte values; the four results are pairwise
\* different; and a block that read the status byte returns its class.
C1_StatusClassified ==
  /\ \A b \in Byte : copy_scratchpad_status(b) = Disposition(b)
  /\ Cardinality({0 - EACCES, 0 - EPERM, 0, 0 - EIO}) = 4
  /\ \A t \in Threads :
       CopyStatusRead(t) => loc[t].error = Disposition(loc[t].success)

\* a block whose MAC the chip rejected, no fault injected: -EACCES
C1_Witness ==
  \E t \in Threads :
    /\ CopyStatusRead(t)
    /\ faults = MaxFaults
    /\ loc[t].success = 0
    /\ loc[t].error = 0 - EACCES

\* C2: when a block of a whole-buffer write fails after k > 0 blocks were
\* committed, the value the write returns to its caller is the number of
\* bytes committed before the failure, 8 * k.
C2_PartialCountReported ==
  \A t \in Threads :
    (FailedWrite(t) /\ loc[t].address > 0) => loc[t].count = loc[t].address

\* once a block failed, the handler of t leaves without another bus action
C3_NoLaterCommand(t) ==
  /\ BlockFailed(t) =>
       (pc'[t] \in {"wb_ret", "out_up"} /\ wire'[t] = wire[t])
  /\ FailedWrite(t) =>
       (pc'[t] \in {"out_up", "done"} /\ wire'[t] \in {wire[t], <<>>})

\* the failing block of thread t got as far as the status byte of its
\* copy-scratchpad
FailedAtStatus(t) == wire[t] # <<>> /\ LastEvent(t) = EvRead(1)

\* the 8 bytes at the address of the failing block of thread t
FailingBlock(t, eeprom) == SubSeq(eeprom, loc[t].address + 1, loc[t].address + 8)

\* the blocks before the failing one hold the data and the blocks after it
\* are as they were when the write took the bus; the failing block is as
\* it was, or holds the data when the block failed on a status byte that
\* was disturbed
C3_EepromAfterAbort ==
  \A t \in Threads :
    (BlockFailed(t) \/ FailedWrite(t)) =>
      /\ \A i \in 1..W1_DS2432_DATA_MEMORY_SIZE :
            /\ i <= loc[t].address => chip.eeprom[i] = loc[t].buf[i]
            /\ i > loc[t].address + 8 => chip.eeprom[i] = ghost[t].eeprom0[i]
      /\ \/ FailingBlock(t, chip.eeprom) = FailingBlock(t, ghost[t].eeprom0)
         \/ /\ FailedAtStatus(t)
            /\ faults < MaxFaults
            /\ FailingBlock(t, chip.eeprom) = BlockData(loc[t])

C3_EepromAfterFailure ==
  \A t \in Threads :
    (BlockFailed(t) \/ FailedWrite(t)) =>
      \A i \in 1..W1_DS2432_DATA_MEMORY_SIZE :
        chip.eeprom[i] = IF i <= loc[t].address THEN loc[t].buf[i]
                         ELSE ghost[t].eeprom0[i]

BusLabels ==
  { "w_reset", "wb_read_memory", "wb_write_scratchpad", "wb_read_scratchpad",
    "wb_copy", "wb_copy_mac", "wb_copy_status", "r_reset", "r_read_memory",
    "s_reset", "ws_reset", "ws_write_scratchpad", "ws_read_scratchpad", "ws_load",
    "ws_load_status", "p_read_memory", "q_read_memory", "f_reset", "f_read_memory" }

\* thread t is between the first and the last bus action of its handler, or
\* about to perform the first
OnBus(t) == pc[t] \in BusLabels \/ wire[t] # <<>>

\* C4: of the operations running concurrently on the bus, at most one is
\* between its first and its last bus action at any time.
C4_OneOperationOnTheBus ==
  \A t, u \in Threads : (t # u) => ~(OnBus(t) /\ OnBus(u))

\* one write is in the middle of a block while another operation waits
C4_Witness ==
  \E t, u \in Threads :
    /\ t # u
    /\ pc[t] = "wb_copy"
    /\ wire[t] # <<>>
    /\ pc[u] = "lock"

\* C5: an operation that took the bus lock releases it before it returns, on
\* every exit path, so no finished operation holds the lock; and, under
\* fairness, every operation waiting for the bus eventually gets it.
C5_LockReleased ==
  /\ [](\A t \in Threads : pc[t] \in {"idle", "done"} => bus_mutex # t)
  /\ \A t \in Threads : (pc[t] = "lock") ~> (bus_mutex = t)

\* the values of the shadow that are one completed secret set, or the initial
CompleteSecrets == {SecretZero} \cup SecretInputs

\* thread t runs a whole-buffer write or a secret-sync and owns the bus
ReadsShadow(t) ==
  bus_mutex = t /\ loc[t].op \in {"eeprom_write", "secret_sync_write"}

\* C6: a secret set is serialized with every in-flight write and secret-sync:
\* the shadow does not change between the start and the end of such an
\* operation, and the 8 bytes it uses for a MAC or an install are those of one
\* completed secret set (or the initial value), never a mix of two.
C6_ShadowSerialized ==
  \A t \in Threads :
    ReadsShadow(t) =>
      /\ secret = ghost[t].secret0
      /\ ghost[t].used_secret # <<>> => ghost[t].used_secret \in CompleteSecrets

\* what read-scratchpad returned passes the three checks of the block
Verified(r) ==
  /\ r.sp_address = r.address
  /\ (r.es \div ES_PF) % 2 = 0
  /\ r.scratchpad = BlockData(r)

\* C7: a block issues copy-scratchpad only after its read-scratchpad returned
\* the requested address, an ES byte with bit 5 clear and the 8 bytes written;
\* a block that ends with read-scratchpad returns -EIO and sends no
\* copy-scratchpad; a committed block holds exactly the caller's data.
C7_CopyOnlyAfterVerification ==
  \A t \in Threads :
    /\ (pc[t] \in {"wb_copy", "wb_copy_mac", "wb_copy_status"} \/ CopyStatusRead(t))
         => Verified(loc[t])
    /\ ReadScratchpadLast(t) => loc[t].error = 0 - EIO
    /\ (CopyStatusRead(t) /\ loc[t].error = 0) =>
         SubSeq(chip.eeprom, loc[t].address + 1, loc[t].address + 8)
           = BlockData(loc[t])

\* the second block of a write was verified and committed
C7_Witness ==
  \E t \in Threads :
    /\ CopyStatusRead(t)
    /\ loc[t].error = 0
    /\ loc[t].address = 8
    /\ Verified(loc[t])

\* C8: whenever the install of the secret fails inside a secret-sync, the
\* secret-sync returns an error to its caller.
C8_SyncReturnsInstallError ==
  \A t \in Threads :
    (pc[t] = "out_up" /\ loc[t].op = "secret_sync_write" /\ loc[t].error < 0)
      => loc[t].count < 0

\* C9: a reset-and-select failure anywhere in a whole-EEPROM read or in a
\* register-field read, the one inside the read-memory command included, is
\* returned to the caller as an error, never as a positive byte count.
C9_ReadReturnsLinkError ==
  \A t \in Threads :
    (/\ pc[t] = "out_up"
     /\ loc[t].op \in {"eeprom_read"} \cup FieldOps
     /\ loc[t].error < 0)
      => loc[t].count < 0

\* C10: a whole-buffer write of count bytes at offset off that succeeds has
\* stored byte j of the caller's buffer at EEPROM address off + j.
C10_WriteLandsAtOffset ==
  \A t \in Threads :
    (pc[t] = "out_up" /\ loc[t].op = "eeprom_write" /\ loc[t].count > 0)
      => \A j \in 0..(loc[t].count - 1) :
           chip.eeprom[loc[t].off + j + 1] = loc[t].buf[j + 1]

\* thread t is leaving a whole-buffer write
WriteLeaving(t) == pc[t] = "out_up" /\ loc[t].op = "eeprom_write"

\* C11: against a chip that is not write protected and holds the secret of
\* the shadow, on an error-free bus, a whole-buffer write of count bytes
\* from offset 0 (count = 8, 16, ..., 128) commits every block, returns
\* count and leaves EEPROM[0..count) equal to the data.
C11_WriteCommitsEveryBlock ==
  \A t \in Threads :
    (WriteLeaving(t) /\ secret = chip.secret /\ ~chip.wp /\ faults = 0) =>
      /\ loc[t].result = 0
      /\ loc[t].count = Len(loc[t].buf)
      /\ SubSeq(chip.eeprom, 1, Len(loc[t].buf)) = loc[t].buf

\* a write of 128 bytes over a memory written before, with a secret set
C11_Witness ==
  \E t \in Threads :
    /\ WriteLeaving(t)
    /\ secret = chip.secret
    /\ secret = SecretReadme2
    /\ loc[t].count = W1_DS2432_DATA_MEMORY_SIZE
    /\ chip.eeprom = FullData
    /\ ghost[t].eeprom0 = OldData

\* the Authentication Message, byte by byte (i counts from 0)
AuthMessage(sec, scratchpad, address, page_data, serial) ==
  [k \in 1..64 |->
     LET i == k - 1
     IN  IF i <= 3 THEN sec[i + 1]
         ELSE IF i <= 31 THEN page_data[i - 3]
         ELSE IF i <= 39 THEN scratchpad[i - 31]
         ELSE IF i = 40 THEN ((address % 256) - (address % 16)) \div 32
         ELSE IF i <= 47 THEN serial[i - 40]
         ELSE IF i <= 51 THEN sec[i - 43]
         ELSE <<255, 255, 255, 128, 0, 0, 0, 0, 0, 0, 1, 184>>[i - 51]]

\* the block of thread t has generated its MAC and not yet sent the command
MacGenerated(t) == pc[t] = "wb_copy"

\* C12: the 64-byte message of generateMac is secret[0..4), the 28 page
\* bytes, the 8 scratchpad bytes, (address & 0xF0) >> 5, serial bytes 0..6,
\* secret[4..8) and FF FF FF 80 00 00 00 00 00 00 01 B8; the page data are
\* the first 28 bytes read from (address / 32) * 32; the MAC of the block is
\* the transform of that message.
C12_MessageLayout ==
  \A t \in Threads :
    MacGenerated(t) =>
      LET r == loc[t]
          page == (r.address \div 32) * 32
          page_data == SubSeq(chip.eeprom, page + 1, page + 28)
          m == AuthMessage(ghost[t].used_secret, r.scratchpad, r.address,
                           page_data, RegistrationNumber)
      IN  /\ SubSeq(r.data_memory_page, 1, 28) = page_data
          /\ MacMessage(ghost[t].used_secret, r.scratchpad, r.address,
                        r.data_memory_page, RegistrationNumber) = m
          /\ r.mac = maxim_sha_transform[m]

\* a block in the middle of page 1, after earlier blocks changed the page
C12_Witness ==
  \E t \in Threads :
    /\ MacGenerated(t)
    /\ loc[t].address = 40
    /\ ghost[t].used_secret = SecretReadme1
    /\ loc[t].data_memory_page[1] = 33
    /\ loc[t].data_memory_page[28] = 256 - 60

\* the inputs of the generate_mac call of thread t's block
MacInputs(t) ==
  [ secret |-> ghost[t].used_secret, scratchpad |-> loc[t].scratchpad,
    address |-> loc[t].address,
    page_data |-> SubSeq(loc[t].data_memory_page, 1, 28),
    serial |-> RegistrationNumber ]

MacOf(x) == generate_mac(x.secret, x.scratchpad, x.address, x.page_data, x.serial)

\* the bits flipped in the one byte that differs
ByteMasks == {1, 8, 128}

\* the tuples that differ from x in exactly one input byte
OneByteVariants(x) ==
  UNION { {[x EXCEPT !.secret[i] = Xor16[@, m]] : i \in 1..8}
          \cup {[x EXCEPT !.scratchpad[i] = Xor16[@, m]] : i \in 1..8}
          \cup {[x EXCEPT !.address = Xor16[@, m * k]] : k \in {1, 256}}
          \cup {[x EXCEPT !.page_data[i] = Xor16[@, m]] : i \in 1..28}
          \cup {[x EXCEPT !.serial[i] = Xor16[@, m]] : i \in 1..8} : m \in ByteMasks }

\* C13: generateMac has no unintended invariance: identical inputs give the
\* identical MAC, and a tuple (secret, scratchpad, address, page data,
\* serial number) that differs in exactly one byte gives a MAC that differs
\* in at least one word.
C13_NoInvariance ==
  \A t \in Threads :
    MacGenerated(t) =>
      /\ MacOf(MacInputs(t)) = loc[t].mac
      /\ \A v \in OneByteVariants(MacInputs(t)) : MacOf(v) # loc[t].mac

\* thread t has returned from a call of fn
Returned_from(t, fn) == pc[t] = "return" /\ loc[t].fn = fn

\* SHA-1 as FIPS 180 states it, on words <<hi, lo>>
not32(p) == <<Not16[p[1]], Not16[p[2]]>>

Sha1Ch(x, y, z) == xor32[and32[x, y], and32[not32(x), z]]

Sha1Parity(x, y, z) == xor32[x, xor32[y, z]]

Sha1Maj(x, y, z) == xor32[xor32[and32[x, y], and32[x, z]], and32[y, z]]

Sha1K == << <<23170, 31129>>, <<28377, 60321>>, <<36635, 48348>>, <<51810, 49622>> >>

Sha1H0 ==
  << <<26437, 8961>>, <<61389, 43913>>, <<39098, 56574>>,
     <<4146, 21622>>, <<50130, 57840>> >>

\* the message schedule W_0 .. W_79 of the block
Sha1Schedule[w \in Seq(U32)] ==
  LET t == Len(w)
  IN  IF t = 80 THEN w
      ELSE Sha1Schedule[w \o <<rol32[xor32[xor32[w[t - 2], w[t - 7]],
                                           xor32[w[t - 13], w[t - 15]]], 1]>>]

\* the working variables <<a, b, c, d, e>> after round t .. 79
Sha1Working[v \in Seq(U32), t \in Nat, w \in Seq(U32)] ==
  IF t = 80 THEN v
  ELSE LET f == IF t \div 20 = 0 THEN Sha1Ch(v[2], v[3], v[4])
                ELSE IF t \div 20 = 2 THEN Sha1Maj(v[2], v[3], v[4])
                ELSE Sha1Parity(v[2], v[3], v[4])
           temp == add32[rol32[v[1], 5],
                     add32[f, add32[v[5], add32[Sha1K[(t \div 20) + 1], w[t + 1]]]]]
       IN  Sha1Working[<<temp, v[1], rol32[v[2], 30], v[3], v[4]>>, t + 1, w]

Sha1Words(block) ==
  [i \in 1..16 |->
     << block[4 * i - 3] * 256 + block[4 * i - 2],
        block[4 * i - 1] * 256 + block[4 * i] >>]

\* the working variables after round 80, and the hash of a one-block message
Sha1After80(block) == Sha1Working[Sha1H0, 0, Sha1Schedule[Sha1Words(block)]]

\* SHA-1("abc") = a9993e36 4706816a ba3e2571 7850c26c 9cd0d89d
AbcDigest ==
  << <<43417, 15926>>, <<18182, 33130>>, <<47678, 9585>>,
     <<30800, 49772>>, <<40144, 55453>> >>

\* SHA-1("") = da39a3ee 5e6b4b0d 3255bfef 95601890 afd80709
EmptyDigest ==
  << <<55865, 41966>>, <<24171, 19213>>, <<12885, 49135>>,
     <<38240, 6288>>, <<45016, 1801>> >>

\* the output with the initial state added word by word
PlusH0(out) == [i \in 1..5 |-> add32[out[i], Sha1H0[i]]]

\* C14: for every 64-byte block the output (a, b, c, d, e) of the MAC
\* transform is the five working variables of the SHA-1 compression after
\* round 80, started from the SHA-1 initial state with big-endian words,
\* modulo 2^32: the output plus the initial state is the SHA-1 hash of a
\* one-block message.
C14_ShaWithoutFinalAddition ==
  \A t \in Threads :
    Returned_from(t, "maxim_sha_transform") =>
      /\ loc[t].out = Sha1After80(loc[t].in)
      /\ loc[t].in = AbcBlock => PlusH0(loc[t].out) = AbcDigest
      /\ loc[t].in = EmptyBlock => PlusH0(loc[t].out) = EmptyDigest

\* the transform returned for the block of "abc"
C14_Witness ==
  \E t \in Threads :
    /\ Returned_from(t, "maxim_sha_transform")
    /\ loc[t].in = AbcBlock
    /\ PlusH0(loc[t].out) = AbcDigest

\* the byte blocks thread t wrote to the wire, in order
Written(t) == SelectSeq(wire[t], LAMBDA ev : ev.a = "write")

\* bits 8*i .. 8*i+7 of the word p = <<hi, lo>>
WordBits(p, i) ==
  IF i < 2 THEN (p[2] \div Pow2[8 * i]) % 256
  ELSE (p[1] \div Pow2[8 * (i - 2)]) % 256

\* C15: for every MAC (a, b, c, d, e), copy scratchpad transmits after its
\* command exactly 20 MAC bytes, the words in the order e, d, c, b, a, each
\* least significant byte first: wire byte 4*k + i is bits 8*i..8*i+7 of
\* the k-th word of (e, d, c, b, a).
C15_MacWireOrder ==
  \A t \in Threads :
    Returned_from(t, "w1_ds2432_copy_scratchpad") /\ loc[t].in.rs_ok =>
      /\ Len(Written(t)) = 2
      /\ Written(t)[2].n = 20
      /\ Len(Written(t)[2].bytes) = 20
      /\ \A k \in 0..4 : \A i \in 0..3 :
            Written(t)[2].bytes[4 * k + i + 1] = WordBits(loc[t].in.mac[5 - k], i)

\* a MAC of five different words was sent
C15_Witness ==
  \E t \in Threads :
    /\ Returned_from(t, "w1_ds2432_copy_scratchpad")
    /\ loc[t].in.rs_ok
    /\ loc[t].in.mac = ChipMac(ChipInit(FALSE))
    /\ loc[t].out.ret = 0
    /\ Len(Written(t)[2].bytes) = 20

\* C16: load first secret returns success exactly when the status byte read
\* after the wait is 0xAA or 0x55, a failure for each of the other 254
\* values, and a link error without transmitting anything when the
\* reset-and-select fails.
C16_LoadFirstSecretStatus ==
  \A t \in Threads :
    Returned_from(t, "w1_ds2432_load_first_secret") =>
      IF loc[t].in.rs_ok
      THEN /\ loc[t].out.success = loc[t].in.env.success
           /\ (loc[t].out.ret = 0) <=> (loc[t].out.success \in {170, 85})
           /\ loc[t].out.ret <= 0
           /\ wire[t][Len(wire[t]) - 1] = EvSleep(10)
           /\ wire[t][Len(wire[t])] = EvRead(1)
      ELSE /\ loc[t].out.ret = 0 - EIO
           /\ Written(t) = <<>>
           /\ \A k \in 1..Len(wire[t]) : wire[t][k].a = "reset_failed"

\* the status 0x55 was read and taken as success
C16_Witness ==
  \E t \in Threads :
    /\ Returned_from(t, "w1_ds2432_load_first_secret")
    /\ loc[t].in.rs_ok
    /\ loc[t].out.success = 85
    /\ loc[t].out.ret = 0
    /\ chip.secret = chip.sp

\* thread t takes a step of a secret set
SecretSetStep(t) == pc[t] = "sw_memcpy" /\ pc'[t] # pc[t]

\* a secret set does nothing on the bus and leaves the chip as it is
SecretSetNoBusAction ==
  \A t \in Threads :
    SecretSetStep(t) => wire' = wire /\ chip' = chip /\ bus_mutex' = bus_mutex

\* when a secret set returns, the shadow is the 8 bytes it was given, or the
\* 8 bytes of a secret set that ran beside it
SecretSetShadow ==
  \A t \in Threads :
    SecretSetStep(t) /\ pc'[t] = "done" =>
      \/ secret' = loc[t].buf
      \/ loc[t].raced /\ secret' \in SecretInputs

\* the chip's secret changes in a step of a secret-sync only
ChipSecretBySync ==
  chip'.secret # chip.secret =>
    \E t \in Threads : loc[t].op = "secret_sync_write" /\ pc'[t] # pc[t]

\* C17: a secret set changes only the shadow: it performs no bus action,
\* leaves the chip's secret, scratchpad and EEPROM unchanged, and afterwards
\* the shadow equals the 8 bytes given (those of one secret set, when two
\* ran at the same time); the chip's secret changes only through a
\* secret-sync.
C17_SecretSetFrame ==
  [][SecretSetNoBusAction /\ SecretSetShadow /\ ChipSecretBySync]_vars

\* the secret-sync of thread t is about to return success, and the shadow
\* is a secret that was set and has not changed since the secret-sync began
SyncSucceeded(t) ==
  /\ pc[t] = "out_up"
  /\ loc[t].op = "secret_sync_write"
  /\ loc[t].count > 0
  /\ secret \in SecretInputs
  /\ ghost[t].secret0 = secret

\* C18: after secret set(S) and a successful secret-sync, the chip's secret
\* equals S and the shadow still equals S (so that a block write computed
\* with the shadow S is accepted by the chip, and one computed with another
\* shadow is rejected).
C18_SyncInstallsShadow ==
  \A t \in Threads : SyncSucceeded(t) => chip.secret = secret

\* thread t has called write scratchpad and then read scratchpad
RoundTrip(t) == Returned_from(t, "w1_ds2432_write_scratchpad")

\* C19: for every 8-byte block D and every 16-bit address A, on an
\* error-free bus write scratchpad (A, D) followed by read scratchpad
\* succeeds and returns the address A and data equal to D; the address is
\* sent low byte first, then the high byte, and decoded from (TA1, TA2) as
\* TA1 + 256 * TA2.
C19_ScratchpadRoundTrip ==
  \A t \in Threads :
    RoundTrip(t) /\ loc[t].in.fault = NoScratchFault =>
      /\ loc[t].out.write_ret = 0
      /\ loc[t].out.ret = 0
      /\ loc[t].out.address = loc[t].in.address
      /\ loc[t].out.data = loc[t].in.data
      /\ Written(t)[1].bytes =
           <<DS2432_WRITE_SCRATCHPAD, loc[t].in.address % 256, loc[t].in.address \div 256>>
           \o loc[t].in.data
      /\ loc[t].out.address = U16Bytes(chip.ta)[1] + 256 * U16Bytes(chip.ta)[2]

\* the address 0xABCD and the block of the second README secret came back
C19_Witness ==
  \E t \in Threads :
    /\ RoundTrip(t)
    /\ loc[t].in.fault = NoScratchFault
    /\ loc[t].in.address = 43981
    /\ loc[t].out.address = 43981
    /\ loc[t].out.data = SecretReadme2
    /\ Written(t)[1].bytes[2] = 205
    /\ Written(t)[1].bytes[3] = 171

\* the frame of the write scratchpad of thread t, and the checksum the host
\* received for it
WriteFrame(t) == Written(t)[1].bytes

WriteChecksum(t) ==
  ChipWriteScratchpadCrc(WriteFrame(t), loc[t].in.fault.txerr, loc[t].in.fault.crcerr)

\* the reply to the read scratchpad of thread t as the host received it
ReadReply(t) == ChipReadScratchpad(chip, loc[t].in.fault.rxerr)

ReadFrame(t) == <<DS2432_READ_SCRATCHPAD>> \o SubSeq(ReadReply(t), 1, 11)

ReadChecksum(t) == ReadReply(t)[12] + 256 * ReadReply(t)[13]

\* write and read scratchpad fail exactly when the complement of the
\* checksum received differs from the CRC16 of the frame, and with it on
\* every single flipped bit of the frame or of the checksum
ChecksumEnforced(t) ==
  /\ (loc[t].out.write_ret = 0 - EIO)
       <=> (Not16[WriteChecksum(t)] # crc16[0, WriteFrame(t)])
  /\ (loc[t].out.ret = 0 - EIO)
       <=> (Not16[ReadChecksum(t)] # crc16[0, ReadFrame(t)])
  /\ loc[t].in.fault.txerr.flip # NoFlip => loc[t].out.write_ret = 0 - EIO
  /\ loc[t].in.fault.crcerr.flip # NoFlip => loc[t].out.write_ret = 0 - EIO
  /\ loc[t].in.fault.rxerr # NoFlip => loc[t].out.ret = 0 - EIO

\* C20 as stated: write scratchpad and read scratchpad fail with a
\* protocol-integrity error whenever the complement of the 2-byte checksum
\* received differs from the CRC16 (seed 0) of the frame; a single flipped
\* bit anywhere in the frame or in the checksum is never accepted.
C20_ChecksumAlwaysEnforced ==
  \A t \in Threads : RoundTrip(t) => ChecksumEnforced(t)

\* C20, amended: in a build with CONFIG_W1_SLAVE_DS2432_CRC, write
\* scratchpad and read scratchpad fail with a protocol-integrity error
\* whenever the complement of the 2-byte checksum received differs from the
\* CRC16 (seed 0) of the frame, and never accept a single flipped bit of
\* the frame or of the checksum; a build without it returns success
\* whatever the checksum.
C20_ChecksumEnforcedWhenCompiledIn ==
  \A t \in Threads :
    RoundTrip(t) =>
      IF CONFIG_W1_SLAVE_DS2432_CRC THEN ChecksumEnforced(t)
      ELSE loc[t].out.write_ret = 0 /\ loc[t].out.ret = 0

\* the validating build refused a reply with one bit of its checksum flipped
C20_Witness ==
  \E t \in Threads :
    /\ RoundTrip(t)
    /\ CONFIG_W1_SLAVE_DS2432_CRC
    /\ loc[t].in.fault.rxerr = <<13, 128>>
    /\ loc[t].out.write_ret = 0
    /\ loc[t].out.ret = 0 - EIO
    /\ loc[t].out.data = loc[t].in.data

\* the commands thread t has issued, in order: the first byte of every
\* block written right after a reset-and-select that succeeded
Commands(t) ==
  LET w == wire[t]
      at == SelectSeq([i \in 1..Len(w) |-> i],
                      LAMBDA i : i > 1 /\ w[i].a = "write" /\ w[i - 1].a = "reset")
  IN  [k \in 1..Len(at) |-> w[at[k]].bytes[1]]

\* the order of the commands of one block write
BlockCommands ==
  <<DS2432_READ_MEMORY, DS2432_WRITE_SCRATCHPAD, DS2432_READ_SCRATCHPAD,
    DS2432_COPY_SCRATCHPAD>>

\* the number of commands a block has issued when it stands at a label
BlockStage(l) ==
  IF l = "wb_read_memory" THEN 0
  ELSE IF l = "wb_write_scratchpad" THEN 1
  ELSE IF l = "wb_read_scratchpad" THEN 2
  ELSE IF l \in {"wb_mac", "wb_copy"} THEN 3
  ELSE 4

BlockLabels ==
  { "wb_read_memory", "wb_write_scratchpad", "wb_read_scratchpad", "wb_mac",
    "wb_copy", "wb_copy_mac", "wb_copy_status", "wb_ret" }

\* every block written is a command right after its own reset-and-select,
\* or the 20 MAC bytes that follow the copy-scratchpad command and its wait
OwnResetEach(t) ==
  \A i \in 1..Len(wire[t]) :
    wire[t][i].a = "write" =>
      /\ i > 1
      /\ \/ wire[t][i - 1].a = "reset"
         \/ /\ i > 3
            /\ wire[t][i].n = 20
            /\ wire[t][i - 1] = EvSleep(2)
            /\ wire[t][i - 2].a = "write"
            /\ wire[t][i - 2].bytes[1] = DS2432_COPY_SCRATCHPAD
            /\ wire[t][i - 3].a = "reset"

\* C21: within one block write the commands are issued in the order
\* READ_MEMORY, WRITE_SCRATCHPAD, READ_SCRATCHPAD, COPY_SCRATCHPAD, each at
\* most once and each right after its own reset-and-select; a later command
\* is issued only if every earlier one returned success; and the MAC is
\* computed after read-scratchpad and before copy-scratchpad.
C21_BlockCommandOrder ==
  \A t \in Threads :
    pc[t] \in BlockLabels =>
      LET done == 4 * (loc[t].address \div 8)
          n == Len(Commands(t)) - done
      IN  /\ OwnResetEach(t)
          /\ \A k \in 1..Len(Commands(t)) :
                Commands(t)[k] = BlockCommands[((k - 1) % 4) + 1]
          /\ IF pc[t] = "wb_ret"
             THEN n \in 0..4 /\ (n < 4 => loc[t].error < 0)
             ELSE n = BlockStage(pc[t]) /\ loc[t].error = 0
          /\ loc[t].mac # <<>> =>
                n >= 3 /\ Commands(t)[done + 3] = DS2432_READ_SCRATCHPAD
          /\ n = 4 => loc[t].mac # <<>>
          /\ pc[t] = "wb_copy" => loc[t].mac # <<>>

\* the second block of a write has issued its four commands and succeeded
C21_Witness ==
  \E t \in Threads :
    /\ pc[t] = "wb_ret"
    /\ loc[t].address = 8
    /\ loc[t].error = 0
    /\ Commands(t) = BlockCommands \o BlockCommands

\* the positions of the events of kind a on the wire of thread t
EventsAt(t, a) == {i \in 1..Len(wire[t]) : wire[t][i].a = a}

\* C22: copy scratchpad performs its steps in this order: reset-and-select;
\* the 4 bytes command, address low, address high, ES; a wait; the 20 MAC
\* bytes; a wait; one status byte read.  The MAC bytes are never sent before
\* the first wait, the status byte is never read before the second wait,
\* and nothing is transmitted when the reset-and-select fails.
C22_CopyScratchpadSteps ==
  \A t \in Threads :
    /\ pc[t] = "call_mac" =>
          Len(wire[t]) = 3 /\ LastEvent(t) = EvSleep(2) /\ Written(t) # <<>>
    /\ pc[t] = "call_status" =>
          Len(wire[t]) = 5 /\ LastEvent(t) = EvSleep(10) /\ wire[t][4].n = 20
    /\ Returned_from(t, "w1_ds2432_copy_scratchpad") =>
      IF loc[t].in.rs_ok
      THEN /\ Len(wire[t]) = 6
           /\ wire[t][1] = EvReset(TRUE)
           /\ wire[t][2] = EvWrite(<<DS2432_COPY_SCRATCHPAD, loc[t].in.address % 256,
                                     loc[t].in.address \div 256, loc[t].in.es>>)
           /\ wire[t][3].a = "sleep" /\ wire[t][3].n >= 2
           /\ wire[t][4] = EvWrite(MacWireBytes(loc[t].in.mac))
           /\ wire[t][4].n = 20
           /\ wire[t][5].a = "sleep" /\ wire[t][5].n >= 10
           /\ wire[t][6] = EvRead(1)
           /\ \A i \in EventsAt(t, "write") :
                 wire[t][i].n = 20 => \E j \in EventsAt(t, "sleep") : j < i
           /\ \A i \in EventsAt(t, "read") :
                 Cardinality({j \in EventsAt(t, "sleep") : j < i}) = 2
      ELSE /\ wire[t] = <<EvReset(FALSE)>>
           /\ loc[t].out.ret = 0 - EIO
           /\ chip = ChipInit(FALSE)

\* copy scratchpad ran to its status byte on the address 8
C22_Witness ==
  \E t \in Threads :
    /\ Returned_from(t, "w1_ds2432_copy_scratchpad")
    /\ loc[t].in.rs_ok
    /\ loc[t].in.address = 8
    /\ Len(wire[t]) = 6
    /\ wire[t][6] = EvRead(1)

\* the load-first-secret command is among the events w
LoadSent(w) ==
  \E i \in 1..Len(w) :
    w[i].a = "write" /\ w[i].bytes[1] = DS2432_LOAD_FIRST_SECRET

\* the write scratchpad of the candidate secret at the secret address is
\* among the events w
SecretStaged(w, candidate) ==
  \E i \in 1..Len(w) :
    w[i] = EvWrite(<<DS2432_WRITE_SCRATCHPAD, W1_DS2432_SECRET_ADDR % 256,
                     W1_DS2432_SECRET_ADDR \div 256>> \o candidate)

\* read scratchpad returned success to the install of thread t in this step
ReadScratchpadReturns(t) ==
  /\ pc[t] = "ws_read_scratchpad"
  /\ pc'[t] # pc[t]
  /\ Len(wire'[t]) = Len(wire[t]) + 5

\* the install of thread t sends load first secret in this step
SendsLoad(t) == ~LoadSent(wire[t]) /\ LoadSent(wire'[t])

\* C23: the install of a secret issues load first secret only after write
\* scratchpad at 0x80 with the candidate secret succeeded and read
\* scratchpad returned the address 0x80 with ES bit 5 clear; if the address
\* echoed differs or ES bit 5 is set it returns an error and load first
\* secret is never sent, so the chip's secret is unchanged.
C23_LoadOnlyAfterVerification ==
  [][ /\ \A t \in Threads :
          /\ SendsLoad(t) =>
                /\ pc[t] = "ws_load"
                /\ loc[t].error = 0
                /\ SecretStaged(wire[t], ghost[t].used_secret)
                /\ loc[t].sp_address = W1_DS2432_SECRET_ADDR
                /\ (loc[t].es \div ES_PF) % 2 = 0
                /\ wire'[t][Len(wire[t]) + 2] =
                     EvWrite(<<DS2432_LOAD_FIRST_SECRET, loc[t].sp_address % 256,
                               loc[t].sp_address \div 256, loc[t].es>>)
          /\ ( /\ ReadScratchpadReturns(t)
               /\ \/ loc'[t].sp_address # W1_DS2432_SECRET_ADDR
                  \/ (loc'[t].es \div ES_PF) % 2 = 1 )
                => /\ pc'[t] = "out_up"
                   /\ loc'[t].error < 0
                   /\ ~LoadSent(wire'[t])
                   /\ chip' = chip
          /\ (pc[t] = "out_up" /\ loc[t].op = "secret_sync_write")
                => ~SendsLoad(t)
      /\ chip'.secret # chip.secret => \E t \in Threads : SendsLoad(t)
    ]_vars

\* an install has sent load first secret and the chip holds the candidate
C23_Witness ==
  \E t \in Threads :
    /\ pc[t] = "out_up"
    /\ loc[t].op = "secret_sync_write"
    /\ LoadSent(wire[t])
    /\ loc[t].error = 0
    /\ ghost[t].used_secret \in SecretInputs
    /\ chip.secret = ghost[t].used_secret

\* the write scratchpad frames thread t has sent, in order
ScratchpadFrames(t) ==
  SelectSeq(wire[t],
            LAMBDA ev : ev.a = "write" /\ ev.n = 11
                        /\ ev.bytes[1] = DS2432_WRITE_SCRATCHPAD)

\* ceil(count / 8)
BlocksOf(count) == (count + 7) \div 8

\* C24: for every count in 1..128 the block loop of the whole-buffer write
\* ends after exactly ceil(count / 8) block writes at the strictly
\* increasing addresses 0, 8, ..., all below 128; the 8-bit address counter
\* never wraps, and a count that is not a multiple of 8 still writes a full
\* 8-byte final block, reading up to 7 bytes past the caller's count.
C24_BlockLoop ==
  \A t \in Threads :
    loc[t].op = "eeprom_write" /\ pc[t] \in BlockLabels \cup {"out_up"} =>
      LET f == ScratchpadFrames(t)
      IN  /\ \A k \in 1..Len(f) :
                /\ f[k].bytes[2] + 256 * f[k].bytes[3] = 8 * (k - 1)
                /\ 8 * (k - 1) < W1_DS2432_DATA_MEMORY_SIZE
                /\ 8 * (k - 1) < loc[t].count
                /\ SubSeq(f[k].bytes, 4, 11)
                     = SubSeq(loc[t].buf, 8 * (k - 1) + 1, 8 * k)
                /\ \A j \in 1..8 :
                     IF 8 * (k - 1) + j <= loc[t].count
                     THEN f[k].bytes[3 + j] = FullData[8 * (k - 1) + j]
                     ELSE f[k].bytes[3 + j] = Beyond(8 * (k - 1) + j)
          /\ loc[t].address + 8 < 256
          /\ Len(f) <= BlocksOf(loc[t].count)
          /\ pc[t] \in BlockLabels =>
                /\ loc[t].address < loc[t].count
                /\ Len(f) \in {loc[t].address \div 8, (loc[t].address \div 8) + 1}
          /\ pc[t] = "out_up" =>
                /\ Len(f) = BlocksOf(loc[t].count)
                /\ Len(Commands(t)) = 4 * BlocksOf(loc[t].count)
                /\ loc[t].address = 8 * BlocksOf(loc[t].count)
                /\ loc[t].address - loc[t].count \in 0..7
                /\ SubSeq(chip.eeprom, 1, loc[t].count)
                     = SubSeq(FullData, 1, loc[t].count)

\* a write of 13 bytes has written two blocks, the second one with the
\* caller's five bytes and three bytes from past the 13, whatever they are
C24_Witness ==
  \E t \in Threads :
    /\ pc[t] = "out_up"
    /\ loc[t].op = "eeprom_write"
    /\ loc[t].count = 13
    /\ Len(ScratchpadFrames(t)) = 2
    /\ SubSeq(ScratchpadFrames(t)[2].bytes, 4, 8) = <<9, 10, 11, 12, 13>>
    /\ \A j \in 9..11 : ScratchpadFrames(t)[2].bytes[j] >= 256
    /\ SubSeq(chip.eeprom, 9, 13) = <<9, 10, 11, 12, 13>>
    /\ \A j \in 14..16 : chip.eeprom[j] = Beyond(j)

\* the datasheet's page number T8:T5 of an address
DatasheetPage(address) == ((address \div 32) % 16)

\* C25: for every 16-bit address below 0x100, and so for every data memory
\* address 0x00..0x7F, the page byte (address & 0xF0) >> 5 placed in message
\* byte 40 equals both the page index address / 32 and the datasheet's
\* T8:T5 = ((address & 0x01E0) >> 5) & 0x0F; the two formulas differ exactly
\* for the addresses that have bit 8 set.
C25_PageByte ==
  \A t \in Threads :
    Returned_from(t, "generate_mac") =>
      LET address == loc[t].in.memory_page
          page == loc[t].out.message[41]
      IN  /\ address < 256 =>
                page = address \div 32 /\ page = DatasheetPage(address)
          /\ (page # DatasheetPage(address)) <=> ((address \div 256) % 2 = 1)
          /\ page = (address \div 32) % 8
          /\ loc[t].out.sha1 = maxim_sha_transform[loc[t].out.message]

\* the last data memory address gave the page byte 3
C25_Witness ==
  \E t \in Threads :
    /\ Returned_from(t, "generate_mac")
    /\ loc[t].in.memory_page = 127
    /\ loc[t].out.message[41] = 3
    /\ DatasheetPage(loc[t].in.memory_page) = 3

\* thread t is inside a whole-EEPROM read that went past the count check
Reading(t) ==
  loc[t].op = "eeprom_read" /\ pc[t] \in {"lock", "r_reset", "r_read_memory", "out_up"}

\* the count the caller asked for: the size of its buffer
Asked(t) == Len(loc[t].buf)

\* the read-memory commands on the wire of thread t
ReadMemoryAt(t) ==
  {i \in 1..Len(wire[t]) :
     wire[t][i].a = "write" /\ wire[t][i].bytes[1] = DS2432_READ_MEMORY}

\* C26: the whole-EEPROM read never addresses data memory past byte 127:
\* the clamped count r satisfies r <= count and, when off <= 128,
\* off + r <= 128; when r is 0 (off >= 128 or count = 0) the read returns 0
\* without acquiring the bus lock or performing any bus action; otherwise
\* it reads exactly r bytes starting at the chip address off.
C26_ReadStaysInDataMemory ==
  [][ \A t \in Threads :
        /\ \A off \in AnyReadOffs, count \in AnyReadCounts :
              LET r == w1_b3_fix_count(off, count, W1_DS2432_DATA_MEMORY_SIZE)
              IN  /\ r >= 0 /\ r <= count
                  /\ off <= W1_DS2432_DATA_MEMORY_SIZE
                       => off + r <= W1_DS2432_DATA_MEMORY_SIZE
                  /\ (r = 0) <=> (off >= W1_DS2432_DATA_MEMORY_SIZE \/ count = 0)
        /\ (pc[t] = "idle" /\ pc'[t] = "done" /\ loc'[t].op = "eeprom_read")
              => /\ loc'[t].ret = 0
                 /\ wire' = wire /\ bus_mutex' = bus_mutex /\ chip' = chip
        /\ Reading(t)' =>
              LET r == w1_b3_fix_count(loc'[t].off, Asked(t)', W1_DS2432_DATA_MEMORY_SIZE)
              IN  /\ r > 0
                  /\ loc'[t].count \in {r, 0 - EIO}
                  /\ pc'[t] # "out_up" => loc'[t].count = r
                  /\ loc'[t].off + r <= W1_DS2432_DATA_MEMORY_SIZE
                  /\ \A i \in ReadMemoryAt(t)' :
                        /\ wire'[t][i].bytes
                             = <<DS2432_READ_MEMORY, loc'[t].off % 256, loc'[t].off \div 256>>
                        /\ wire'[t][i + 1] = EvRead(r)
                        /\ i + 1 = Len(wire'[t])
                  /\ (pc'[t] = "out_up" /\ loc'[t].count = r /\ loc'[t].error = 0)
                        => /\ ReadMemoryAt(t)' # {}
                           /\ loc'[t].buf =
                                SubSeq(chip'.eeprom, loc'[t].off + 1, loc'[t].off + r)
                                \o SubSeq(Zeros(Asked(t)'), r + 1, Asked(t)')
    ]_vars

\* a read of 8 bytes at offset 121 has read the 7 bytes that are left
C26_Witness ==
  \E t \in Threads :
    /\ pc[t] = "out_up"
    /\ loc[t].op = "eeprom_read"
    /\ loc[t].off = 121
    /\ Asked(t) = 8
    /\ loc[t].count = 7
    /\ wire[t][Len(wire[t])] = EvRead(7)

====
